---- MODULE Spec2Model ----
(***************************************************************************)
(* Flash-sale backend (notcoin-backend-contest): the checkout / purchase   *)
(* protocol of internal/service over the PostgreSQL store                  *)
(* (internal/store/postgres.go) and the Redis cache.                       *)
(*                                                                         *)
(* Durable tables are variables (sales, items, checkout_attempts,          *)
(* purchases, user_sale_limits); the cache is the variable redis.  Each    *)
(* request handler is a worker whose position (pc) advances one store      *)
(* operation at a time, so that every interleaving of store operations of  *)
(* concurrent requests is explored.  A transaction's row locks (SELECT ... *)
(* FOR UPDATE) are held from the locking statement to commit or rollback;  *)
(* its writes become visible at commit only (READ COMMITTED), so the       *)
(* mutations and the commit are one step.                                  *)
(*                                                                         *)
(* Time is a discrete clock.  The quantities of the configuration are      *)
(* scaled down (see the bounds below).                                     *)
(***************************************************************************)
EXTENDS Integers, Sequences, FiniteSets, TLC

(* ------------------------------ bounds -------------------------------- *)
\* concurrent request handlers
NumWorkers == 2
\* distinct user ids
NumUsers == 2
\* reservations (checkout codes) ever issued, under Spec
MaxCodes == 1
\* reservations ever issued, under SpecRace
RaceCodes == 2
\* last instant of the clock
MaxTime == 3
\* sales the scheduler ever creates
MaxSales == 2
\* last instant of the clock and sales ever created, under SpecSched
SchedTime == 4
\* reservations ever issued, under SpecOrder: userMaxItemsPerSale + 1
OrderCodes == 3
SchedSales == 3
\* per-user limit L (userMaxItemsPerSale = 10 in the source), scaled
userMaxItemsPerSale == 2
\* reservation window (config.CodeTTLExpiry = 5 min in the source), in clock units
CodeTTLExpiry == 1
\* sale duration and scheduler period (time.Hour in the source), in clock units
SaleDuration == 2

\* items per sale (itemsPerSale = 10000 in the source), scaled: one more than
\* the per-user limit, so that a user can attempt more than L distinct items
itemsPerSale == userMaxItemsPerSale + 1
SaleCycleInterval == SaleDuration
\* reservations ever issued, under SpecLimit: userMaxItemsPerSale + 2, enough for
\* one user to pass the limit while a second user holds a token for the same item
LimitCodes == 4

Workers == 1..NumWorkers
Users == 1..NumUsers
Codes == 1..LimitCodes
SaleIds == 1..MaxSales
ItemIds == 1..(MaxSales * itemsPerSale)
\* a code no checkout ever issued
BadCode == 0
\* an item id no sale ever provisioned
BadItem == 0

VARIABLES
    now,                \* the wall clock
    sales,              \* table sales: sequence indexed by id
    items,              \* table items: id -> [sale_id, is_sold]
    checkout_attempts,  \* table checkout_attempts: code -> row
    purchases,          \* table purchases: sequence of rows (id SERIAL)
    user_sale_limits,   \* table user_sale_limits: <<user, sale>> -> items_purchased
    redis,              \* cache: code -> [attempt, ttl_at]
    req,                \* per worker: the request it is serving and its position
    sched               \* the sale-cycle scheduler

vars == <<now, sales, items, checkout_attempts, purchases, user_sale_limits, redis, req, sched>>

db == <<sales, items, checkout_attempts, purchases, user_sale_limits>>

(* ------------------------------ errors -------------------------------- *)
ErrSaleNotActive == "ErrSaleNotActive"
ErrItemNotFoundOrSold == "ErrItemNotFoundOrSold"
ErrUserLimitReached == "ErrUserLimitReached"
ErrCheckoutFailed == "ErrCheckoutFailed"
ErrCheckoutCodeInvalid == "ErrCheckoutCodeInvalid"
ErrCheckoutCodeAlreadyUsed == "ErrCheckoutCodeAlreadyUsed"
ErrCheckoutCodeExpired == "ErrCheckoutCodeExpired"
ErrSaleLimitReached == "ErrSaleLimitReached"
ErrPurchaseFailed == "ErrPurchaseFailed"
\* store-level sentinels (postgres.go)
ErrDBItemAlreadySold == "ErrDBItemAlreadySold"
ErrDBSaleLimitReached == "ErrDBSaleLimitReached"
ErrDBUserPurchaseLimitReached == "ErrDBUserPurchaseLimitReached"
\* an error built by fmt.Errorf that wraps none of the sentinels
ErrUnnamed == "ErrUnnamed"
Ok == "ok"

(* --------------------------- request record --------------------------- *)
Idle ==
    [pc |-> "idle", op |-> "none", userID |-> 0, itemID |-> 0, saleID |-> 0,
     code |-> BadCode, expiresAt |-> 0, fromCache |-> FALSE, fault |-> FALSE,
     ctxDone |-> FALSE, result |-> "none"]

\* the request is over: what is left of it is the response, whether a store
\* operation failed, and whether the reservation came from the cache
Finish(r, res, fault) ==
    [Idle EXCEPT !.pc = "done", !.fromCache = r.fromCache, !.fault = fault, !.result = res]

\* handlers are interchangeable: a new request is served by the lowest free one
Free(w) == req[w].pc = "idle" /\ \A v \in Workers : v < w => req[v].pc # "idle"

(* ------------------------------ queries ------------------------------- *)
\* GetActiveSale: is_active AND NOW() BETWEEN start_time AND end_time,
\* ORDER BY start_time DESC LIMIT 1; the candidates with the latest start
ActiveSales ==
    {s \in DOMAIN sales :
        sales[s].is_active /\ sales[s].start_time <= now /\ now <= sales[s].end_time}

GetActiveSale ==
    {s \in ActiveSales : \A t \in ActiveSales : sales[t].start_time <= sales[s].start_time}

\* seeded fault: an outstanding reservation hides the item from checkouts
GetItemForCheckout_Reserving(itemID, saleID) ==
    /\ itemID \in DOMAIN items /\ items[itemID].sale_id = saleID /\ ~items[itemID].is_sold
    /\ \A c \in DOMAIN checkout_attempts :
          checkout_attempts[c].item_id # itemID \/ checkout_attempts[c].is_used

\* GetItemForCheckout: id = $1 AND sale_id = $2 AND is_sold = FALSE
GetItemForCheckout(itemID, saleID) ==
    itemID \in DOMAIN items /\ items[itemID].sale_id = saleID /\ ~items[itemID].is_sold

\* GetUserPurchaseCountForSale: 0 when the row is absent
GetUserPurchaseCountForSale(userID, saleID) ==
    IF <<userID, saleID>> \in DOMAIN user_sale_limits
    THEN user_sale_limits[<<userID, saleID>>] ELSE 0

\* generateUniqueID: a code that no row carries yet
NextCode == Cardinality(DOMAIN checkout_attempts) + 1

\* a cache operation of worker w fails: the command fails, or the request's
\* context, which the Redis client is given, is done
CacheFails(w, fail) == fail \/ req[w].ctxDone

\* the context of the request of worker w is done (deadline passed, client gone)
CtxDone(w) ==
    /\ req[w].pc \notin {"idle", "done"}
    /\ ~req[w].ctxDone
    /\ req' = [req EXCEPT ![w].ctxDone = TRUE]
    /\ UNCHANGED <<now, db, redis, sched>>

(* ----------------------------- the clock ------------------------------ *)
\* The clock's origin is the end of the cycle the scheduler runs at process
\* start: no row carries a timestamp before then.
TickTo(limit) ==
    /\ now < limit
    /\ ~sched.starting
    /\ now' = now + 1
    \* Redis drops the keys whose time-to-live has elapsed
    /\ redis' = [c \in {d \in DOMAIN redis : redis[d].ttl_at >= now + 1} |-> redis[c]]
    /\ UNCHANGED <<db, req, sched>>

Tick == TickTo(MaxTime)

\* the cache may lose any entry at any time (eviction, restart)
CacheEvict(c) ==
    /\ c \in DOMAIN redis
    /\ redis' = [d \in DOMAIN redis \ {c} |-> redis[d]]
    /\ UNCHANGED <<now, db, req, sched>>

(* ------------------- ProcessCheckout (service) ------------------------ *)
\* codes still available to checkouts that have not inserted their row yet
CheckoutsInFlight ==
    {w \in Workers : req[w].op = "checkout"
                     /\ req[w].pc \in {"GetItemForCheckout", "GetUserPurchaseCount",
                                       "CreateCheckoutAttempt"}}

CanStartCheckout(maxCodes) ==
    Cardinality(DOMAIN checkout_attempts) + Cardinality(CheckoutsInFlight) < maxCodes

\* Users and items that no reservation and no running checkout names are
\* interchangeable: a request naming a new user, or a new item of a sale, names
\* the lowest such id.
NamedUsers ==
    {checkout_attempts[c].user_id : c \in DOMAIN checkout_attempts}
        \cup {req[w].userID : w \in {v \in Workers : req[v].op = "checkout"}}

NamedItems ==
    {checkout_attempts[c].item_id : c \in DOMAIN checkout_attempts}
        \cup {req[w].itemID : w \in {v \in Workers : req[v].op = "checkout"}}

CheckoutInput(userID, itemID) ==
    /\ \A v \in Users : v < userID => v \in NamedUsers
    /\ itemID \in DOMAIN items \cup {BadItem}
    /\ itemID # BadItem =>
          \A j \in DOMAIN items :
              (j < itemID /\ items[j].sale_id = items[itemID].sale_id) => j \in NamedItems

\* ProcessCheckout entry and s.dbStore.GetActiveSale()
CheckoutGetActiveSale(w, userID, itemID, fail) ==
    /\ Free(w)
    /\ CheckoutInput(userID, itemID)
    /\ LET r0 == [Idle EXCEPT !.op = "checkout", !.userID = userID, !.itemID = itemID] IN
       IF fail
       THEN req' = [req EXCEPT ![w] = Finish(@, ErrUnnamed, TRUE)]
       ELSE IF GetActiveSale = {}
       THEN req' = [req EXCEPT ![w] = Finish(@, ErrSaleNotActive, FALSE)]
       ELSE \E s \in GetActiveSale :
               req' = [req EXCEPT ![w] =
                           [r0 EXCEPT !.pc = "GetItemForCheckout", !.saleID = s]]
    /\ UNCHANGED <<now, db, redis, sched>>

\* s.dbStore.GetItemForCheckout(itemID, activeSale.ID)
CheckoutGetItem(w, fail) ==
    /\ req[w].pc = "GetItemForCheckout"
    /\ IF fail
       THEN req' = [req EXCEPT ![w] = Finish(@, ErrUnnamed, TRUE)]
       ELSE IF ~GetItemForCheckout(req[w].itemID, req[w].saleID)
       THEN req' = [req EXCEPT ![w] = Finish(@, ErrItemNotFoundOrSold, FALSE)]
       ELSE req' = [req EXCEPT ![w].pc = "GetUserPurchaseCount"]
    /\ UNCHANGED <<now, db, redis, sched>>

\* seeded fault: the admission does not look at the counter
CheckoutLimitReached_NotChecked(count) == FALSE

\* the admission check of the per-user limit: userPurchaseCount >= userMaxItemsPerSale
CheckoutLimitReached(count) == count >= userMaxItemsPerSale

\* s.dbStore.GetUserPurchaseCountForSale(userID, activeSale.ID)
CheckoutGetUserCount(w, fail) ==
    /\ req[w].pc = "GetUserPurchaseCount"
    /\ IF fail
       THEN req' = [req EXCEPT ![w] = Finish(@, ErrUnnamed, TRUE)]
       ELSE IF CheckoutLimitReached(GetUserPurchaseCountForSale(req[w].userID, req[w].saleID))
       THEN req' = [req EXCEPT ![w] = Finish(@, ErrUserLimitReached, FALSE)]
       ELSE req' = [req EXCEPT ![w].pc = "CreateCheckoutAttempt"]
    /\ UNCHANGED <<now, db, redis, sched>>

\* seeded fault: a failed durable insert is ignored and the cache is written
CheckoutCreateAttempt_FailureIgnored(w, fail) ==
    /\ req[w].pc = "CreateCheckoutAttempt"
    /\ IF fail
       THEN /\ req' = [req EXCEPT ![w].pc = "StoreCheckoutCode", ![w].code = NextCode,
                                  ![w].expiresAt = now + CodeTTLExpiry]
            /\ UNCHANGED checkout_attempts
       ELSE LET code == NextCode
                row == [user_id |-> req[w].userID, item_id |-> req[w].itemID,
                        sale_id |-> req[w].saleID, expires_at |-> now + CodeTTLExpiry,
                        is_used |-> FALSE]
            IN /\ checkout_attempts' =
                     [c \in DOMAIN checkout_attempts \cup {code} |->
                         IF c = code THEN row ELSE checkout_attempts[c]]
               /\ req' = [req EXCEPT ![w].pc = "StoreCheckoutCode", ![w].code = code,
                                     ![w].expiresAt = now + CodeTTLExpiry]
    /\ UNCHANGED <<now, sales, items, purchases, user_sale_limits, redis, sched>>

\* generateUniqueID and s.dbStore.CreateCheckoutAttempt: the durable reservation
\* row, expires_at = time.Now() + CodeTTLExpiry, is_used = FALSE
CheckoutCreateAttempt(w, fail) ==
    /\ req[w].pc = "CreateCheckoutAttempt"
    /\ IF fail
       THEN /\ req' = [req EXCEPT ![w] = Finish(@, ErrCheckoutFailed, TRUE)]
            /\ UNCHANGED checkout_attempts
       ELSE LET code == NextCode
                row == [user_id |-> req[w].userID, item_id |-> req[w].itemID,
                        sale_id |-> req[w].saleID, expires_at |-> now + CodeTTLExpiry,
                        is_used |-> FALSE]
            IN /\ checkout_attempts' =
                     [c \in DOMAIN checkout_attempts \cup {code} |->
                         IF c = code THEN row ELSE checkout_attempts[c]]
               /\ req' = [req EXCEPT ![w].pc = "StoreCheckoutCode", ![w].code = code,
                                     ![w].expiresAt = now + CodeTTLExpiry]
    /\ UNCHANGED <<now, sales, items, purchases, user_sale_limits, redis, sched>>

\* s.redisStore.StoreCheckoutCode(attempt, ttl): SET key json ttl; a failure is
\* logged and the code is returned all the same
CheckoutStoreCode(w, fail) ==
    /\ req[w].pc = "StoreCheckoutCode"
    /\ IF CacheFails(w, fail)
       THEN UNCHANGED redis
       ELSE LET entry == [user_id |-> req[w].userID, item_id |-> req[w].itemID,
                          sale_id |-> req[w].saleID, expires_at |-> req[w].expiresAt,
                          is_used |-> FALSE, ttl_at |-> now + CodeTTLExpiry]
            IN redis' = [c \in DOMAIN redis \cup {req[w].code} |->
                            IF c = req[w].code THEN entry ELSE redis[c]]
    /\ req' = [req EXCEPT ![w] = Finish(@, Ok, FALSE)]
    /\ UNCHANGED <<now, db, sched>>

\* the handler has written its response; the worker serves the next request
Return(w) ==
    /\ req[w].pc = "done"
    /\ req' = [req EXCEPT ![w] = Idle]
    /\ UNCHANGED <<now, db, redis, sched>>

(* -------------------- ProcessPurchase (service) ----------------------- *)
\* a code is known to a client once the checkout that created it has returned
IssuedCodes ==
    {c \in DOMAIN checkout_attempts :
        ~\E w \in Workers : req[w].pc = "StoreCheckoutCode" /\ req[w].code = c}

\* seeded fault: the used flag of the reservation is not looked at
AttemptIsUsed_NotChecked(attempt) == FALSE

\* getValidCheckoutAttempt: if attempt.IsUsed
AttemptIsUsed(attempt) == attempt.is_used

\* seeded fault: the expiry of the reservation is not looked at
AttemptExpired_NotChecked(attempt) == FALSE

\* getValidCheckoutAttempt: if time.Now().After(attempt.ExpiresAt)
AttemptExpired(attempt) == now > attempt.expires_at

\* seeded fault: the expiry is checked before the used flag
ValidateAttempt_ExpiryFirst(r, attempt) ==
    IF AttemptExpired(attempt) THEN Finish(r, ErrCheckoutCodeExpired, FALSE)
    ELSE IF AttemptIsUsed(attempt) THEN Finish(r, ErrCheckoutCodeAlreadyUsed, FALSE)
    ELSE [r EXCEPT !.pc = "GetSaleByID", !.userID = attempt.user_id,
                   !.itemID = attempt.item_id, !.saleID = attempt.sale_id,
                   !.expiresAt = attempt.expires_at]

\* getValidCheckoutAttempt, after the reservation was resolved: the used and
\* expiry checks, then on to the sale lookup with the reservation's fields
ValidateAttempt(r, attempt) ==
    IF AttemptIsUsed(attempt) THEN Finish(r, ErrCheckoutCodeAlreadyUsed, FALSE)
    ELSE IF AttemptExpired(attempt) THEN Finish(r, ErrCheckoutCodeExpired, FALSE)
    ELSE [r EXCEPT !.pc = "GetSaleByID", !.userID = attempt.user_id,
                   !.itemID = attempt.item_id, !.saleID = attempt.sale_id,
                   !.expiresAt = attempt.expires_at]

\* the purchase handler calls ProcessPurchase(ctx, code)
PurchaseStart(w, code) ==
    /\ Free(w)
    /\ code \in IssuedCodes \cup {BadCode}
    /\ req' = [req EXCEPT ![w] =
                   [Idle EXCEPT !.pc = "GetCheckoutAttempt", !.op = "purchase", !.code = code]]
    /\ UNCHANGED <<now, db, redis, sched>>

\* seeded fault: a code the cache does not hold is declared invalid at once
PurchaseGetFromRedis_NoFallback(w, fail) ==
    /\ req[w].pc = "GetCheckoutAttempt"
    /\ IF CacheFails(w, fail) \/ req[w].code \notin DOMAIN redis
       THEN req' = [req EXCEPT ![w] = Finish(@, ErrCheckoutCodeInvalid, FALSE)]
       ELSE req' = [req EXCEPT ![w] =
                       ValidateAttempt([@ EXCEPT !.fromCache = TRUE], redis[req[w].code])]
    /\ UNCHANGED <<now, db, redis, sched>>

\* s.redisStore.GetCheckoutAttempt(code): a hit gives the cached reservation; a
\* miss (redis.Nil) or an error gives nil, and the durable store is asked next
PurchaseGetFromRedis(w, fail) ==
    /\ req[w].pc = "GetCheckoutAttempt"
    /\ IF CacheFails(w, fail) \/ req[w].code \notin DOMAIN redis
       THEN req' = [req EXCEPT ![w].pc = "GetCheckoutAttemptByID"]
       ELSE req' = [req EXCEPT ![w] =
                       ValidateAttempt([@ EXCEPT !.fromCache = TRUE], redis[req[w].code])]
    /\ UNCHANGED <<now, db, redis, sched>>

\* seeded fault: the durable lookup marks the reservation it finds as used
PurchaseGetFromDB_Consuming(w, fail) ==
    /\ req[w].pc = "GetCheckoutAttemptByID"
    /\ IF fail
       THEN /\ req' = [req EXCEPT ![w] = Finish(@, ErrUnnamed, TRUE)]
            /\ UNCHANGED checkout_attempts
       ELSE IF req[w].code \notin DOMAIN checkout_attempts
       THEN /\ req' = [req EXCEPT ![w] = Finish(@, ErrCheckoutCodeInvalid, FALSE)]
            /\ UNCHANGED checkout_attempts
       ELSE /\ req' = [req EXCEPT ![w] = ValidateAttempt(@, checkout_attempts[req[w].code])]
            /\ checkout_attempts' =
                 [checkout_attempts EXCEPT ![req[w].code].is_used = TRUE]
    /\ UNCHANGED <<now, sales, items, purchases, user_sale_limits, redis, sched>>

\* s.dbStore.GetCheckoutAttemptByID(code): (nil, nil) when no row has the code
PurchaseGetFromDB(w, fail) ==
    /\ req[w].pc = "GetCheckoutAttemptByID"
    /\ IF fail
       THEN req' = [req EXCEPT ![w] = Finish(@, ErrUnnamed, TRUE)]
       ELSE IF req[w].code \notin DOMAIN checkout_attempts
       THEN req' = [req EXCEPT ![w] = Finish(@, ErrCheckoutCodeInvalid, FALSE)]
       ELSE req' = [req EXCEPT ![w] = ValidateAttempt(@, checkout_attempts[req[w].code])]
    /\ UNCHANGED <<now, db, redis, sched>>

\* getValidCheckoutAttempt: !sale.IsActive || now after EndTime || now before StartTime
SaleNotOpen(sale) ==
    ~sale.is_active \/ now > sale.end_time \/ now < sale.start_time

\* seeded fault: a reservation read from the cache is not checked against its sale
PurchaseGetSale_CacheTrusted(w, fail) ==
    /\ req[w].pc = "GetSaleByID"
    /\ IF req[w].fromCache
       THEN req' = [req EXCEPT ![w].pc = "LockItem"]
       ELSE IF fail
       THEN req' = [req EXCEPT ![w] = Finish(@, ErrSaleNotActive, TRUE)]
       ELSE IF req[w].saleID \notin DOMAIN sales \/ SaleNotOpen(sales[req[w].saleID])
       THEN req' = [req EXCEPT ![w] = Finish(@, ErrSaleNotActive, FALSE)]
       ELSE req' = [req EXCEPT ![w].pc = "LockItem"]
    /\ UNCHANGED <<now, db, redis, sched>>

\* s.dbStore.GetSaleByID(attempt.SaleID): an error or no row is ErrSaleNotActive
PurchaseGetSale(w, fail) ==
    /\ req[w].pc = "GetSaleByID"
    /\ IF fail
       THEN req' = [req EXCEPT ![w] = Finish(@, ErrSaleNotActive, TRUE)]
       ELSE IF req[w].saleID \notin DOMAIN sales \/ SaleNotOpen(sales[req[w].saleID])
       THEN req' = [req EXCEPT ![w] = Finish(@, ErrSaleNotActive, FALSE)]
       ELSE req' = [req EXCEPT ![w].pc = "LockItem"]
    /\ UNCHANGED <<now, db, redis, sched>>

(* ------------- ExecutePurchaseTransaction (store) --------------------- *)
\* seeded fault: every store error is reported as the generic failure
MapPurchaseError_Generic(err) == ErrPurchaseFailed

\* ProcessPurchase: the store's sentinels become the service's errors, anything
\* else becomes ErrPurchaseFailed
MapPurchaseError(err) ==
    IF err = ErrDBItemAlreadySold THEN ErrItemNotFoundOrSold
    ELSE IF err = ErrDBSaleLimitReached THEN ErrSaleLimitReached
    ELSE IF err = ErrDBUserPurchaseLimitReached THEN ErrUserLimitReached
    ELSE ErrPurchaseFailed

\* seeded fault: the sale's size is passed where the per-user limit belongs
PurchaseUserItemLimit_SaleSize == itemsPerSale

\* the userItemLimitPerSale argument ProcessPurchase passes to the transaction
PurchaseUserItemLimit == userMaxItemsPerSale

\* the transaction of worker w holds the lock of its item row
HoldsItemLock(w) ==
    req[w].op = "purchase" /\ req[w].pc \in {"LockSale", "LockUserLimit", "Commit"}

\* the transaction of worker w holds the lock of its sale row
HoldsSaleLock(w) ==
    req[w].op = "purchase" /\ req[w].pc \in {"LockUserLimit", "Commit"}

\* seeded fault: a transaction that asks for the item row bars the others at once
ItemRowLocked_OnRequest(w, itemID) ==
    \E v \in Workers \ {w} :
        /\ req[v].op = "purchase"
        /\ req[v].pc \in {"LockItem", "LockSale", "LockUserLimit", "Commit"}
        /\ req[v].itemID = itemID

\* SELECT ... FROM items ... FOR UPDATE waits while another transaction holds the row
ItemRowLocked(w, itemID) ==
    \E v \in Workers \ {w} : HoldsItemLock(v) /\ req[v].itemID = itemID

\* SELECT ... FROM sales ... FOR UPDATE waits while another transaction holds the row
SaleRowLocked(w, saleID) ==
    \E v \in Workers \ {w} : HoldsSaleLock(v) /\ req[v].saleID = saleID

\* seeded fault: the sold flag is not re-checked under the item row lock
ItemIsSold_NotChecked(item) == FALSE

\* if item.IsSold
ItemIsSold(item) == item.is_sold

\* BeginTx and SELECT ... FROM items WHERE id = $1 AND sale_id = $2 FOR UPDATE
PurchaseLockItem(w, fail) ==
    /\ req[w].pc = "LockItem"
    /\ ~ItemRowLocked(w, req[w].itemID)
    /\ IF fail
       THEN req' = [req EXCEPT ![w] = Finish(@, MapPurchaseError(ErrUnnamed), TRUE)]
       ELSE IF ~(req[w].itemID \in DOMAIN items
                 /\ items[req[w].itemID].sale_id = req[w].saleID)
       THEN req' = [req EXCEPT ![w] = Finish(@, MapPurchaseError(ErrUnnamed), FALSE)]
       ELSE IF ItemIsSold(items[req[w].itemID])
       THEN req' = [req EXCEPT ![w] = Finish(@, MapPurchaseError(ErrDBItemAlreadySold), FALSE)]
       ELSE req' = [req EXCEPT ![w].pc = "LockSale"]
    /\ UNCHANGED <<now, db, redis, sched>>

\* seeded fault: the sale is not re-checked under its row lock
SaleClosed_NotChecked(sale) == FALSE

\* if !currentSale.IsActive || time.Now().After(currentSale.EndTime)
SaleClosed(sale) == ~sale.is_active \/ now > sale.end_time

\* if currentSale.SoldItems >= currentSale.TotalItems
SaleLimitReached(sale) == sale.sold_items >= sale.total_items

\* SELECT ... FROM sales WHERE id = $1 FOR UPDATE
PurchaseLockSale(w, fail) ==
    /\ req[w].pc = "LockSale"
    /\ ~SaleRowLocked(w, req[w].saleID)
    /\ IF fail
       THEN req' = [req EXCEPT ![w] = Finish(@, MapPurchaseError(ErrUnnamed), TRUE)]
       ELSE IF req[w].saleID \notin DOMAIN sales \/ SaleClosed(sales[req[w].saleID])
       THEN req' = [req EXCEPT ![w] = Finish(@, MapPurchaseError(ErrUnnamed), FALSE)]
       ELSE IF SaleLimitReached(sales[req[w].saleID])
       THEN req' = [req EXCEPT ![w] = Finish(@, MapPurchaseError(ErrDBSaleLimitReached), FALSE)]
       ELSE req' = [req EXCEPT ![w].pc = "LockUserLimit"]
    /\ UNCHANGED <<now, db, redis, sched>>

\* seeded fault: the counter is not checked inside the transaction
UserLimitReached_NotChecked(count, limit) == FALSE

\* if userPurchaseCount >= userItemLimitPerSale
UserLimitReached(count, limit) == count >= limit

\* SELECT items_purchased FROM user_sale_limits ... FOR UPDATE; userPurchaseCount
\* stays 0 on sql.ErrNoRows
PurchaseLockUserLimit(w, fail) ==
    /\ req[w].pc = "LockUserLimit"
    /\ IF fail
       THEN req' = [req EXCEPT ![w] = Finish(@, MapPurchaseError(ErrUnnamed), TRUE)]
       ELSE IF UserLimitReached(GetUserPurchaseCountForSale(req[w].userID, req[w].saleID),
                                PurchaseUserItemLimit)
       THEN req' = [req EXCEPT ![w] =
                       Finish(@, MapPurchaseError(ErrDBUserPurchaseLimitReached), FALSE)]
       ELSE req' = [req EXCEPT ![w].pc = "Commit"]
    /\ UNCHANGED <<now, db, redis, sched>>

\* seeded fault: the sold counter is bumped twice per purchase
IncrementSoldItems_Twice(n) == n + 2

\* UPDATE sales SET sold_items = sold_items + 1
IncrementSoldItems(n) == n + 1

\* INSERT INTO user_sale_limits ... VALUES (.., 1) ON CONFLICT DO UPDATE SET
\* items_purchased = items_purchased + 1 WHERE items_purchased < $3
UpsertUserSaleLimit(limits, userID, saleID, limit) ==
    IF <<userID, saleID>> \notin DOMAIN limits
    THEN [k \in DOMAIN limits \cup {<<userID, saleID>>} |->
             IF k = <<userID, saleID>> THEN 1 ELSE limits[k]]
    ELSE IF limits[<<userID, saleID>>] < limit
    THEN [limits EXCEPT ![<<userID, saleID>>] = @ + 1]
    ELSE limits

\* seeded fault: the UPDATE has no WHERE clause
MarkCodeUsed_AllRows(attempts, code) ==
    [c \in DOMAIN attempts |-> [attempts[c] EXCEPT !.is_used = TRUE]]

\* UPDATE checkout_attempts SET is_used = TRUE WHERE id = $1
MarkCodeUsed(attempts, code) ==
    [c \in DOMAIN attempts |->
        IF c = code THEN [attempts[c] EXCEPT !.is_used = TRUE] ELSE attempts[c]]

\* seeded fault: a failing statement leaves the item marked sold
PurchaseCommit_Partial(w, fail) ==
    /\ req[w].pc = "Commit"
    /\ IF fail
       THEN /\ req' = [req EXCEPT ![w] =
                          Finish(@, MapPurchaseError(ErrUnnamed), TRUE)]
            /\ items' = [items EXCEPT ![req[w].itemID].is_sold = TRUE]
            /\ UNCHANGED <<sales, purchases, user_sale_limits, checkout_attempts>>
       ELSE /\ items' = [items EXCEPT ![req[w].itemID].is_sold = TRUE]
            /\ sales' = [sales EXCEPT ![req[w].saleID].sold_items = IncrementSoldItems(@)]
            /\ purchases' = Append(purchases,
                               [user_id |-> req[w].userID, item_id |-> req[w].itemID,
                                sale_id |-> req[w].saleID, checkout_code |-> req[w].code])
            /\ user_sale_limits' = UpsertUserSaleLimit(user_sale_limits, req[w].userID,
                                       req[w].saleID, PurchaseUserItemLimit)
            /\ checkout_attempts' = MarkCodeUsed(checkout_attempts, req[w].code)
            /\ req' = [req EXCEPT ![w].pc = "DeleteCheckoutCode"]
    /\ UNCHANGED <<now, redis, sched>>

\* the five mutations and tx.Commit(); a failing statement or commit rolls
\* everything back (defer tx.Rollback())
PurchaseCommit(w, fail) ==
    /\ req[w].pc = "Commit"
    /\ IF fail
       THEN /\ req' = [req EXCEPT ![w] =
                          Finish(@, MapPurchaseError(ErrUnnamed), TRUE)]
            /\ UNCHANGED db
       ELSE /\ items' = [items EXCEPT ![req[w].itemID].is_sold = TRUE]
            /\ sales' = [sales EXCEPT ![req[w].saleID].sold_items = IncrementSoldItems(@)]
            /\ purchases' = Append(purchases,
                               [user_id |-> req[w].userID, item_id |-> req[w].itemID,
                                sale_id |-> req[w].saleID, checkout_code |-> req[w].code])
            /\ user_sale_limits' = UpsertUserSaleLimit(user_sale_limits, req[w].userID,
                                       req[w].saleID, PurchaseUserItemLimit)
            /\ checkout_attempts' = MarkCodeUsed(checkout_attempts, req[w].code)
            /\ req' = [req EXCEPT ![w].pc = "DeleteCheckoutCode"]
    /\ UNCHANGED <<now, redis, sched>>

\* seeded fault: the cache entry is rewritten as used instead of deleted
PurchaseDeleteCode_MarkUsed(w, fail) ==
    /\ req[w].pc = "DeleteCheckoutCode"
    /\ IF CacheFails(w, fail) \/ req[w].code \notin DOMAIN redis
       THEN UNCHANGED redis
       ELSE redis' = [redis EXCEPT ![req[w].code].is_used = TRUE]
    /\ req' = [req EXCEPT ![w] = Finish(@, Ok, FALSE)]
    /\ UNCHANGED <<now, db, sched>>

\* seeded fault: the cache entry is left in place after the purchase
PurchaseDeleteCode_Skipped(w, fail) ==
    /\ req[w].pc = "DeleteCheckoutCode"
    /\ req' = [req EXCEPT ![w] = Finish(@, Ok, FALSE)]
    /\ UNCHANGED <<now, db, redis, sched>>

\* seeded fault: a failing cache delete fails the purchase
PurchaseDeleteCode_Surfaced(w, fail) ==
    /\ req[w].pc = "DeleteCheckoutCode"
    /\ IF CacheFails(w, fail)
       THEN /\ UNCHANGED redis
            /\ req' = [req EXCEPT ![w] = Finish(@, ErrPurchaseFailed, TRUE)]
       ELSE /\ redis' = [c \in DOMAIN redis \ {req[w].code} |-> redis[c]]
            /\ req' = [req EXCEPT ![w] = Finish(@, Ok, FALSE)]
    /\ UNCHANGED <<now, db, sched>>

\* s.redisStore.DeleteCheckoutCode(code): a failure is logged, the item is returned
PurchaseDeleteCode(w, fail) ==
    /\ req[w].pc = "DeleteCheckoutCode"
    /\ IF CacheFails(w, fail)
       THEN UNCHANGED redis
       ELSE redis' = [c \in DOMAIN redis \ {req[w].code} |-> redis[c]]
    /\ req' = [req EXCEPT ![w] = Finish(@, Ok, FALSE)]
    /\ UNCHANGED <<now, db, sched>>

(* ------------------- ManageHourlySaleCycle (service) ------------------ *)
\* UPDATE sales SET is_active = FALSE WHERE is_active = TRUE: waits for the
\* transactions that hold one of these rows; an error is logged and the cycle goes on
SchedDeactivateAll(fail) ==
    /\ sched.pc = "DeactivateAllActiveSales"
    /\ ~\E w \in Workers : HoldsSaleLock(w) /\ sales[req[w].saleID].is_active
    /\ IF fail
       THEN UNCHANGED sales
       ELSE sales' = [s \in DOMAIN sales |-> [sales[s] EXCEPT !.is_active = FALSE]]
    /\ sched' = [sched EXCEPT !.pc = "CreateSale"]
    /\ UNCHANGED <<now, items, checkout_attempts, purchases, user_sale_limits, redis, req>>

\* CreateNewSaleAndItems: s.dbStore.CreateSale(sale), the row is active at once
SchedCreateSale(fail) ==
    /\ sched.pc = "CreateSale"
    /\ IF fail
       THEN /\ sched' = [sched EXCEPT !.pc = "wait", !.starting = FALSE]
            /\ UNCHANGED sales
       ELSE /\ sales' = Append(sales,
                           [start_time |-> now, end_time |-> now + SaleDuration,
                            total_items |-> itemsPerSale, sold_items |-> 0,
                            is_active |-> TRUE])
            /\ sched' = [sched EXCEPT !.pc = "CreateItemsBatch", !.saleID = Len(sales) + 1]
    /\ UNCHANGED <<now, items, checkout_attempts, purchases, user_sale_limits, redis, req>>

\* seeded fault: the batch is one item short
ItemsOfSale_OneShort(saleID) == ((saleID - 1) * itemsPerSale + 1)..(saleID * itemsPerSale - 1)

\* the ids of the items provisioned for a sale
ItemsOfSale(saleID) == ((saleID - 1) * itemsPerSale + 1)..(saleID * itemsPerSale)

\* s.dbStore.CreateItemsBatch(items): one transaction inserting itemsPerSale rows
SchedCreateItems(fail) ==
    /\ sched.pc = "CreateItemsBatch"
    /\ IF fail
       THEN /\ sched' = [sched EXCEPT !.pc = "DeactivateSaleByID"]
            /\ UNCHANGED items
       ELSE /\ items' = [i \in DOMAIN items \cup ItemsOfSale(sched.saleID) |->
                            IF i \in DOMAIN items THEN items[i]
                            ELSE [sale_id |-> sched.saleID, is_sold |-> FALSE]]
            /\ sched' = [sched EXCEPT !.pc = "wait", !.starting = FALSE]
    /\ UNCHANGED <<now, sales, checkout_attempts, purchases, user_sale_limits, redis, req>>

\* s.dbStore.DeactivateSaleByID(createdSale.ID) after a failed batch
SchedDeactivateByID(fail) ==
    /\ sched.pc = "DeactivateSaleByID"
    /\ ~SaleRowLocked(0, sched.saleID)
    /\ IF fail
       THEN UNCHANGED sales
       ELSE sales' = [sales EXCEPT ![sched.saleID].is_active = FALSE]
    /\ sched' = [sched EXCEPT !.pc = "wait", !.starting = FALSE]
    /\ UNCHANGED <<now, items, checkout_attempts, purchases, user_sale_limits, redis, req>>

\* the ticker of the server's scheduler goroutine: one cycle per period
SchedTickTo(limit) ==
    /\ sched.pc = "wait"
    /\ now >= sched.lastTick + SaleCycleInterval
    /\ Len(sales) < limit
    /\ sched' = [sched EXCEPT !.pc = "DeactivateAllActiveSales", !.lastTick = now]
    /\ UNCHANGED <<now, db, redis, req>>

SchedTick == SchedTickTo(MaxSales)

(* --------------------------- specification ---------------------------- *)
Init ==
    /\ now = 0
    /\ sales = <<>>
    /\ items = <<>>
    /\ checkout_attempts = <<>>
    /\ purchases = <<>>
    /\ user_sale_limits = <<>>
    /\ redis = <<>>
    /\ req = [w \in Workers |-> Idle]
    /\ sched = [pc |-> "DeactivateAllActiveSales", lastTick |-> 0, saleID |-> 0,
                starting |-> TRUE, shutdownChan |-> "open", schedulerDone |-> "open",
                tickAtShutdown |-> 0]

Next ==
    \/ Tick
    \/ \E c \in Codes : CacheEvict(c)
    \/ /\ CanStartCheckout(MaxCodes)
       /\ \E w \in Workers, u \in Users, i \in ItemIds \cup {BadItem}, fail \in BOOLEAN :
             CheckoutGetActiveSale(w, u, i, fail)
    \/ \E w \in Workers, fail \in BOOLEAN : CheckoutGetItem(w, fail)
    \/ \E w \in Workers, fail \in BOOLEAN : CheckoutGetUserCount(w, fail)
    \/ \E w \in Workers, fail \in BOOLEAN : CheckoutCreateAttempt(w, fail)
    \/ \E w \in Workers, fail \in BOOLEAN : CheckoutStoreCode(w, fail)
    \/ \E w \in Workers, c \in Codes \cup {BadCode} : PurchaseStart(w, c)
    \/ \E w \in Workers, fail \in BOOLEAN : PurchaseGetFromRedis(w, fail)
    \/ \E w \in Workers, fail \in BOOLEAN : PurchaseGetFromDB(w, fail)
    \/ \E w \in Workers, fail \in BOOLEAN : PurchaseGetSale(w, fail)
    \/ \E w \in Workers, fail \in BOOLEAN : PurchaseLockItem(w, fail)
    \/ \E w \in Workers, fail \in BOOLEAN : PurchaseLockSale(w, fail)
    \/ \E w \in Workers, fail \in BOOLEAN : PurchaseLockUserLimit(w, fail)
    \/ \E w \in Workers, fail \in BOOLEAN : PurchaseCommit(w, fail)
    \/ \E w \in Workers, fail \in BOOLEAN : PurchaseDeleteCode(w, fail)
    \/ \E w \in Workers : Return(w)
    \/ \E fail \in BOOLEAN : SchedDeactivateAll(fail)
    \/ \E fail \in BOOLEAN : SchedCreateSale(fail)
    \/ \E fail \in BOOLEAN : SchedCreateItems(fail)
    \/ \E fail \in BOOLEAN : SchedDeactivateByID(fail)
    \/ SchedTick

\* Everything at once: requests, store and cache failures, cache eviction, the
\* clock and the scheduler's cycles.
Spec == Init /\ [][Next]_vars

\* Concurrent requests on one sale with store and cache failures, while the
\* clock stands still.
NextRace ==
    \/ \E c \in Codes : CacheEvict(c)
    \/ /\ CanStartCheckout(RaceCodes)
       /\ \E w \in Workers, u \in Users, i \in ItemIds \cup {BadItem}, fail \in BOOLEAN :
             CheckoutGetActiveSale(w, u, i, fail)
    \/ \E w \in Workers, fail \in BOOLEAN : CheckoutGetItem(w, fail)
    \/ \E w \in Workers, fail \in BOOLEAN : CheckoutGetUserCount(w, fail)
    \/ \E w \in Workers, fail \in BOOLEAN : CheckoutCreateAttempt(w, fail)
    \/ \E w \in Workers, fail \in BOOLEAN : CheckoutStoreCode(w, fail)
    \/ \E w \in Workers, c \in Codes \cup {BadCode} : PurchaseStart(w, c)
    \/ \E w \in Workers, fail \in BOOLEAN : PurchaseGetFromRedis(w, fail)
    \/ \E w \in Workers, fail \in BOOLEAN : PurchaseGetFromDB(w, fail)
    \/ \E w \in Workers, fail \in BOOLEAN : PurchaseGetSale(w, fail)
    \/ \E w \in Workers, fail \in BOOLEAN : PurchaseLockItem(w, fail)
    \/ \E w \in Workers, fail \in BOOLEAN : PurchaseLockSale(w, fail)
    \/ \E w \in Workers, fail \in BOOLEAN : PurchaseLockUserLimit(w, fail)
    \/ \E w \in Workers, fail \in BOOLEAN : PurchaseCommit(w, fail)
    \/ \E w \in Workers, fail \in BOOLEAN : PurchaseDeleteCode(w, fail)
    \/ \E w \in Workers : Return(w)
    \/ \E fail \in BOOLEAN : SchedDeactivateAll(fail)
    \/ \E fail \in BOOLEAN : SchedCreateSale(fail)
    \/ \E fail \in BOOLEAN : SchedCreateItems(fail)
    \/ \E fail \in BOOLEAN : SchedDeactivateByID(fail)

SpecRace == Init /\ [][NextRace]_vars

\* Enough reservations for a user to pass the per-user limit and for a sale to
\* sell out, with no failure and the clock standing still.
NextLimit ==
    \/ /\ CanStartCheckout(LimitCodes)
       /\ \E w \in Workers, u \in Users, i \in ItemIds : CheckoutGetActiveSale(w, u, i, FALSE)
    \/ \E w \in Workers : CheckoutGetItem(w, FALSE)
    \/ \E w \in Workers : CheckoutGetUserCount(w, FALSE)
    \/ \E w \in Workers : CheckoutCreateAttempt(w, FALSE)
    \/ \E w \in Workers : CheckoutStoreCode(w, FALSE)
    \/ \E w \in Workers, c \in Codes : PurchaseStart(w, c)
    \/ \E w \in Workers : PurchaseGetFromRedis(w, FALSE)
    \/ \E w \in Workers : PurchaseGetFromDB(w, FALSE)
    \/ \E w \in Workers : PurchaseGetSale(w, FALSE)
    \/ \E w \in Workers : PurchaseLockItem(w, FALSE)
    \/ \E w \in Workers : PurchaseLockSale(w, FALSE)
    \/ \E w \in Workers : PurchaseLockUserLimit(w, FALSE)
    \/ \E w \in Workers : PurchaseCommit(w, FALSE)
    \/ \E w \in Workers : PurchaseDeleteCode(w, FALSE)
    \/ \E w \in Workers : Return(w)
    \/ SchedDeactivateAll(FALSE)
    \/ SchedCreateSale(FALSE)
    \/ SchedCreateItems(FALSE)

SpecLimit == Init /\ [][NextLimit]_vars

\* Several scheduler cycles with store failures, observed by checkouts.
NextSched ==
    \/ TickTo(SchedTime)
    \/ \E c \in Codes : CacheEvict(c)
    \/ /\ CanStartCheckout(MaxCodes)
       /\ \E w \in Workers, u \in Users, i \in 1..(SchedSales * itemsPerSale) \cup {BadItem} :
             CheckoutGetActiveSale(w, u, i, FALSE)
    \/ \E w \in Workers : CheckoutGetItem(w, FALSE)
    \/ \E w \in Workers : CheckoutGetUserCount(w, FALSE)
    \/ \E w \in Workers : CheckoutCreateAttempt(w, FALSE)
    \/ \E w \in Workers : CheckoutStoreCode(w, FALSE)
    \/ \E w \in Workers : Return(w)
    \/ \E fail \in BOOLEAN : SchedDeactivateAll(fail)
    \/ \E fail \in BOOLEAN : SchedCreateSale(fail)
    \/ \E fail \in BOOLEAN : SchedCreateItems(fail)
    \/ \E fail \in BOOLEAN : SchedDeactivateByID(fail)
    \/ SchedTickTo(SchedSales)

SpecSched == Init /\ [][NextSched]_vars

\* One user working through more reservations than the per-user limit while
\* the clock runs and the sale ends; no failure.
NextOrder ==
    \/ Tick
    \/ /\ CanStartCheckout(OrderCodes)
       /\ \E w \in Workers, i \in ItemIds : CheckoutGetActiveSale(w, 1, i, FALSE)
    \/ \E w \in Workers : CheckoutGetItem(w, FALSE)
    \/ \E w \in Workers : CheckoutGetUserCount(w, FALSE)
    \/ \E w \in Workers : CheckoutCreateAttempt(w, FALSE)
    \/ \E w \in Workers : CheckoutStoreCode(w, FALSE)
    \/ \E w \in Workers, c \in Codes : PurchaseStart(w, c)
    \/ \E w \in Workers : PurchaseGetFromRedis(w, FALSE)
    \/ \E w \in Workers : PurchaseGetFromDB(w, FALSE)
    \/ \E w \in Workers : PurchaseGetSale(w, FALSE)
    \/ \E w \in Workers : PurchaseLockItem(w, FALSE)
    \/ \E w \in Workers : PurchaseLockSale(w, FALSE)
    \/ \E w \in Workers : PurchaseLockUserLimit(w, FALSE)
    \/ \E w \in Workers : PurchaseCommit(w, FALSE)
    \/ \E w \in Workers : PurchaseDeleteCode(w, FALSE)
    \/ \E w \in Workers : Return(w)
    \/ SchedDeactivateAll(FALSE)
    \/ SchedCreateSale(FALSE)
    \/ SchedCreateItems(FALSE)

SpecOrder == Init /\ [][NextOrder]_vars

\* Concurrent requests as under SpecRace; the context of a purchase may be done
\* while its transaction is in progress and holds the item row.
\* a step of a checkout or purchase request, store and cache failures included
RequestStep ==
    \/ /\ CanStartCheckout(MaxCodes)
       /\ \E w \in Workers, u \in Users, i \in ItemIds \cup {BadItem}, fail \in BOOLEAN :
             CheckoutGetActiveSale(w, u, i, fail)
    \/ \E w \in Workers, fail \in BOOLEAN : CheckoutGetItem(w, fail)
    \/ \E w \in Workers, fail \in BOOLEAN : CheckoutGetUserCount(w, fail)
    \/ \E w \in Workers, fail \in BOOLEAN : CheckoutCreateAttempt(w, fail)
    \/ \E w \in Workers, fail \in BOOLEAN : CheckoutStoreCode(w, fail)
    \/ \E w \in Workers, c \in Codes \cup {BadCode} : PurchaseStart(w, c)
    \/ \E w \in Workers, fail \in BOOLEAN : PurchaseGetFromRedis(w, fail)
    \/ \E w \in Workers, fail \in BOOLEAN : PurchaseGetFromDB(w, fail)
    \/ \E w \in Workers, fail \in BOOLEAN : PurchaseGetSale(w, fail)
    \/ \E w \in Workers, fail \in BOOLEAN : PurchaseLockItem(w, fail)
    \/ \E w \in Workers, fail \in BOOLEAN : PurchaseLockSale(w, fail)
    \/ \E w \in Workers, fail \in BOOLEAN : PurchaseLockUserLimit(w, fail)
    \/ \E w \in Workers, fail \in BOOLEAN : PurchaseCommit(w, fail)
    \/ \E w \in Workers, fail \in BOOLEAN : PurchaseDeleteCode(w, fail)
    \/ \E w \in Workers : Return(w)

\* Requests of every kind and the clock, with scheduler cycles in which every
\* store operation succeeds.
NextCycle ==
    \/ Tick
    \/ RequestStep
    \/ SchedDeactivateAll(FALSE)
    \/ SchedCreateSale(FALSE)
    \/ SchedCreateItems(FALSE)
    \/ SchedTick

SpecCycle == Init /\ [][NextCycle]_vars

\* the next statement of the transaction of worker w, whatever its outcome
TxProgress(w) ==
    \E fail \in BOOLEAN :
        \/ PurchaseLockItem(w, fail)
        \/ PurchaseLockSale(w, fail)
        \/ PurchaseLockUserLimit(w, fail)
        \/ PurchaseCommit(w, fail)

\* Everything, with the scheduling of the database: a transaction whose next
\* statement can run again and again does run it (row-lock waiters are queued),
\* and so does the scheduler's UPDATE.
SpecLocks ==
    /\ Init /\ [][Next]_vars
    /\ \A w \in Workers : SF_vars(TxProgress(w))
    /\ SF_vars(\E fail \in BOOLEAN : SchedDeactivateAll(fail))

NextDeadline ==
    \/ NextRace
    \/ \E w \in Workers : HoldsItemLock(w) /\ CtxDone(w)

SpecDeadline == Init /\ [][NextDeadline]_vars

(* ============================ properties ============================== *)
PurchasesOfItem(itemID) == {k \in DOMAIN purchases : purchases[k].item_id = itemID}

PurchasesOfCode(code) == {k \in DOMAIN purchases : purchases[k].checkout_code = code}

PurchasesOfSale(saleID) == {k \in DOMAIN purchases : purchases[k].sale_id = saleID}

PurchasesOfUser(userID, saleID) ==
    {k \in DOMAIN purchases :
        purchases[k].user_id = userID /\ purchases[k].sale_id = saleID}

\* worker w is inside ExecutePurchaseTransaction
InPhaseB(w) == req[w].pc \in {"LockItem", "LockSale", "LockUserLimit", "Commit"}

\* this step ends the request of worker w
Finishes(w) == req[w].pc \notin {"idle", "done"} /\ req'[w].pc = "done"

\* this step commits the purchase transaction of worker w
Commits(w) == req[w].pc = "Commit" /\ req'[w].pc = "DeleteCheckoutCode"

\* C1 (SpecRace): at-most-one allocation.  Whatever the interleaving of the
\* purchase attempts that name an item, with the same or different codes and
\* users, at most one of them commits: no item has two purchase rows.
C1_AtMostOneAllocation ==
    \A i \in DOMAIN items : Cardinality(PurchasesOfItem(i)) <= 1

\* C1 witness: two attempts of different users with different codes passed
\* Phase A for the same item; one has committed, the other is about to lock
\* the item row.
C1_Witness ==
    \E w, v \in Workers :
        /\ req[w].pc = "LockItem" /\ req[v].pc = "DeleteCheckoutCode"
        /\ req[w].itemID = req[v].itemID
        /\ req[w].code # req[v].code
        /\ req[w].userID # req[v].userID
        /\ Cardinality(PurchasesOfItem(req[w].itemID)) = 1

\* C3 (SpecLimit): sale cap.  In every reachable state, for every sale,
\* sold_items <= total_items and the purchase rows of the sale number at most
\* total_items.
C3_SaleCap ==
    \A s \in DOMAIN sales :
        /\ sales[s].sold_items <= sales[s].total_items
        /\ Cardinality(PurchasesOfSale(s)) <= sales[s].total_items

\* C3 witness: a sale is sold out, and a purchase for it is still in Phase A.
C3_Witness ==
    \E s \in DOMAIN sales :
        /\ sales[s].sold_items = sales[s].total_items
        /\ Cardinality(PurchasesOfSale(s)) = sales[s].total_items
        /\ \E w \in Workers : req[w].op = "purchase" /\ req[w].pc = "GetSaleByID"
                              /\ req[w].saleID = s

\* C4 (SpecLimit): per-user counter cap.  In every reachable state every
\* user_sale_limits row holds at most the per-user limit L.
C4_CounterCap ==
    \A k \in DOMAIN user_sale_limits : user_sale_limits[k] <= userMaxItemsPerSale

\* C4 witness: two purchases of one user for different items are inside their
\* transactions at once while the user's counter row does not exist yet.
C4_Witness ==
    \E w, v \in Workers :
        /\ w # v /\ InPhaseB(w) /\ InPhaseB(v)
        /\ req[w].userID = req[v].userID /\ req[w].saleID = req[v].saleID
        /\ req[w].itemID # req[v].itemID
        /\ <<req[w].userID, req[w].saleID>> \notin DOMAIN user_sale_limits

\* this step is a step of worker w
Steps(w) == req'[w] # req[w]

\* another purchaser with another token for the same item is in its transaction
\* or waits for the item row
RivalFor(w) ==
    \E v \in Workers \ {w} :
        /\ InPhaseB(v)
        /\ req[v].itemID = req[w].itemID
        /\ req[v].code # req[w].code
        /\ req[v].userID # req[w].userID

C5_UserPurchaseCap ==
    [][/\ \A u \in Users, s \in DOMAIN sales :
             Cardinality(PurchasesOfUser(u, s)') <= userMaxItemsPerSale
       /\ \A w \in Workers :
             LET n == Cardinality(PurchasesOfUser(req[w].userID, req[w].saleID)) IN
             /\ (req[w].pc \in {"GetUserPurchaseCount", "LockUserLimit"} /\ Steps(w)
                   /\ n >= userMaxItemsPerSale)
                    => req'[w].pc = "done" /\ req'[w].result = ErrUserLimitReached
             /\ (req[w].pc = "GetUserPurchaseCount" /\ Steps(w) /\ n < userMaxItemsPerSale)
                    => req'[w].pc = "CreateCheckoutAttempt"
             /\ (req[w].pc = "LockUserLimit" /\ Steps(w) /\ n < userMaxItemsPerSale)
                    => req'[w].pc = "Commit"
             /\ Commits(w) =>
                    Cardinality(PurchasesOfUser(req[w].userID, req[w].saleID)') = n + 1]_vars

\* C5 witness: a user holds exactly L purchases, has a further token for an
\* unsold item, and an attempt has been refused with UserLimitReached.
C5_Witness ==
    \E u \in Users, s \in DOMAIN sales :
        /\ Cardinality(PurchasesOfUser(u, s)) = userMaxItemsPerSale
        /\ \E c \in DOMAIN checkout_attempts :
              /\ checkout_attempts[c].user_id = u /\ ~checkout_attempts[c].is_used
              /\ ~items[checkout_attempts[c].item_id].is_sold
        /\ \E w \in Workers : req[w].pc = "done" /\ req[w].result = ErrUserLimitReached

\* the durable reservation of worker w's code exists and is marked used
CodeUsed(w) ==
    req[w].code \in DOMAIN checkout_attempts /\ checkout_attempts[req[w].code].is_used

\* the purchase that consumed worker w's code has returned to its caller
ConsumerReturned(w) ==
    \A v \in Workers : ~(req[v].pc = "DeleteCheckoutCode" /\ req[v].code = req[w].code)

\* C6 as stated: a call that starts after the purchase with its token has
\* completed fails with TokenAlreadyUsed, also when its reservation is found in
\* the cache: its cache read either falls through to the durable store or ends
\* the call with TokenAlreadyUsed.
C6_UsedTokenAlwaysAlreadyUsed ==
    [][\A w \in Workers :
          (req[w].pc = "GetCheckoutAttempt" /\ CodeUsed(w) /\ ConsumerReturned(w) /\ Steps(w))
              => \/ req'[w].pc = "GetCheckoutAttemptByID"
                 \/ req'[w].pc = "done" /\ req'[w].result = ErrCheckoutCodeAlreadyUsed]_vars

\* C6 amended (Spec): once a token has completed a purchase, no later call with
\* it commits.  A call that resolves the reservation from the durable store
\* fails with TokenAlreadyUsed (or with the store's error).  A call that finds
\* the reservation in the cache, where it is never marked used, does not fail
\* with TokenAlreadyUsed: it fails with TokenExpired, SaleNotActive,
\* ItemAlreadySold or PurchaseFailed.
C6_TokenSingleUse ==
    [][\A w \in Workers :
          CodeUsed(w) =>
             /\ ~Commits(w)
             /\ (req[w].pc = "GetCheckoutAttemptByID" /\ Steps(w)) =>
                   /\ req'[w].pc = "done"
                   /\ \/ req'[w].result = ErrCheckoutCodeAlreadyUsed /\ ~req'[w].fault
                      \/ req'[w].result = ErrUnnamed /\ req'[w].fault
             /\ (req[w].pc = "GetCheckoutAttempt" /\ Steps(w)) =>
                   \/ req'[w].pc = "GetCheckoutAttemptByID"
                   \/ /\ req'[w].fromCache
                      /\ \/ req'[w].pc = "GetSaleByID"
                         \/ req'[w].pc = "done" /\ req'[w].result = ErrCheckoutCodeExpired
             /\ (req[w].fromCache /\ req[w].pc # "DeleteCheckoutCode" /\ Finishes(w)) =>
                   req'[w].result \in {ErrSaleNotActive, ErrItemNotFoundOrSold,
                                       ErrPurchaseFailed}]_vars

\* C6 witness: a call with a consumed token was answered TokenAlreadyUsed from
\* the durable store.
C6_Witness ==
    \E w \in Workers :
        /\ req[w].pc = "done" /\ req[w].result = ErrCheckoutCodeAlreadyUsed
        /\ ~req[w].fromCache
        /\ \E c \in DOMAIN checkout_attempts :
              checkout_attempts[c].is_used /\ Cardinality(PurchasesOfCode(c)) = 1

\* C7 (Spec): a reservation is consumed at most once.  Over any interleaving of
\* calls with one token, no checkout code is carried by two purchase rows.
C7_ConsumedAtMostOnce ==
    \A c \in Codes : Cardinality(PurchasesOfCode(c)) <= 1

\* C7 witness: two calls with the same token both passed Phase A; one has
\* committed, the other is about to enter its transaction.
C7_Witness ==
    \E w, v \in Workers :
        /\ req[w].pc = "LockItem" /\ req[v].pc = "DeleteCheckoutCode"
        /\ req[w].code = req[v].code
        /\ Cardinality(PurchasesOfCode(req[w].code)) = 1

\* C8 (Spec): expiry.  When a call examines an unused reservation after its
\* expires_at, read from the cache or from the durable store, the call ends
\* with TokenExpired and no table changes.
C8_ExpiredTokenRefused ==
    [][\A w \in Workers :
          (/\ req[w].pc \in {"GetCheckoutAttempt", "GetCheckoutAttemptByID"}
           /\ Steps(w)
           /\ req[w].code \in DOMAIN checkout_attempts
           /\ ~checkout_attempts[req[w].code].is_used
           /\ now > checkout_attempts[req[w].code].expires_at
           /\ req'[w].pc # "GetCheckoutAttemptByID"
           /\ ~req'[w].fault)
              => /\ req'[w].pc = "done"
                 /\ req'[w].result = ErrCheckoutCodeExpired
                 /\ db' = db]_vars

\* C8 witness: an expired, never used reservation was read from the cache and
\* the call was answered TokenExpired.
C8_Witness ==
    \E w \in Workers :
        /\ req[w].pc = "done" /\ req[w].result = ErrCheckoutCodeExpired
        /\ req[w].fromCache
        /\ \A c \in DOMAIN checkout_attempts : ~checkout_attempts[c].is_used
        /\ purchases = <<>>

\* C9 as stated: no purchase transaction commits at a time later than the
\* expires_at of its reservation.
C9_NoCommitAfterExpiry ==
    [][\A w \in Workers :
          Commits(w) => now <= checkout_attempts[req[w].code].expires_at]_vars

\* a cause, in the tables, for refusing worker w's purchase
SaleIsOpen(w) ==
    req[w].saleID \in DOMAIN sales /\ ~SaleNotOpen(sales[req[w].saleID])

\* C10 (Spec): cache-miss safety.  A cache read that does not produce an entry
\* (no entry, or a read error) is followed by the durable lookup; a call is
\* answered TokenInvalid only by the durable lookup finding no row; and a call
\* that resolved its reservation from the durable store goes through every
\* check whose condition holds in the tables and commits, unless a store
\* operation fails.
C10_CacheMissSafety ==
    [][\A w \in Workers :
          /\ (req[w].pc = "GetCheckoutAttempt" /\ Steps(w)) =>
                \/ req'[w].pc = "GetCheckoutAttemptByID"
                \/ req[w].code \in DOMAIN redis /\ req'[w].fromCache
          /\ (Finishes(w) /\ req'[w].result = ErrCheckoutCodeInvalid) =>
                /\ req[w].pc = "GetCheckoutAttemptByID"
                /\ req[w].code \notin DOMAIN checkout_attempts
          /\ (Steps(w) /\ ~req[w].fromCache /\ ~req'[w].fault) =>
                /\ (/\ req[w].pc = "GetCheckoutAttemptByID"
                    /\ req[w].code \in DOMAIN checkout_attempts
                    /\ ~checkout_attempts[req[w].code].is_used
                    /\ now <= checkout_attempts[req[w].code].expires_at)
                       => /\ req'[w].pc = "GetSaleByID"
                          /\ req'[w].itemID = checkout_attempts[req[w].code].item_id
                          /\ req'[w].userID = checkout_attempts[req[w].code].user_id
                /\ (req[w].op = "purchase" /\ req[w].pc = "GetSaleByID" /\ SaleIsOpen(w))
                       => req'[w].pc = "LockItem"
                /\ (req[w].pc = "LockItem" /\ ~items[req[w].itemID].is_sold)
                       => req'[w].pc = "LockSale"
                /\ (/\ req[w].pc = "LockSale" /\ SaleIsOpen(w)
                    /\ sales[req[w].saleID].sold_items < sales[req[w].saleID].total_items)
                       => req'[w].pc = "LockUserLimit"
                /\ (/\ req[w].pc = "LockUserLimit"
                    /\ GetUserPurchaseCountForSale(req[w].userID, req[w].saleID)
                          < userMaxItemsPerSale)
                       => req'[w].pc = "Commit"
                /\ req[w].pc = "Commit" =>
                       /\ req'[w].pc = "DeleteCheckoutCode"
                       /\ Cardinality(PurchasesOfCode(req[w].code)') = 1
                /\ req[w].pc = "DeleteCheckoutCode" => req'[w].result = Ok]_vars

\* C10 witness: a purchase whose token the cache no longer holds was resolved
\* from the durable store and has committed.
C10_Witness ==
    \E w \in Workers :
        /\ req[w].pc = "DeleteCheckoutCode" /\ ~req[w].fromCache
        /\ req[w].code \notin DOMAIN redis
        /\ Cardinality(PurchasesOfCode(req[w].code)) = 1

\* C11 (Spec): cache failures are never surfaced.  The step after the durable
\* insert of a checkout (the cache write) and the step after the commit of a
\* purchase (the cache delete) end the call with success whether or not the
\* cache operation worked, and neither changes a table.
C11_CacheFailureSwallowed ==
    [][\A w \in Workers :
          (req[w].pc \in {"StoreCheckoutCode", "DeleteCheckoutCode"} /\ Steps(w))
              => /\ req'[w].pc = "done"
                 /\ req'[w].result = Ok
                 /\ ~req'[w].fault
                 /\ db' = db]_vars

\* C11 witness: the purchase with a token has returned successfully while the
\* cache still holds the token's entry: its cache delete failed.
C11_Witness ==
    \E c \in DOMAIN redis :
        /\ checkout_attempts[c].is_used
        /\ Cardinality(PurchasesOfCode(c)) = 1
        /\ \A v \in Workers : req[v].pc # "DeleteCheckoutCode"
        /\ \E w \in Workers : req[w].pc = "done" /\ req[w].result = Ok

\* C12 as stated: in every reachable state at most one sale is active with now
\* inside its window, also after a cycle whose deactivation of the previous
\* sales failed.  Stated here for the instants before the end of the window, so
\* that a violation does not rest on the instant now = end_time.
C12_AtMostOneActiveSale ==
    Cardinality({s \in ActiveSales : now < sales[s].end_time}) <= 1

\* C13 as stated: a sale whose sold_items has reached total_items is
\* deactivated, so that no active sale is sold out once the requests that were
\* running have returned.
C13_ExhaustedSaleDeactivated ==
    (\A w \in Workers : req[w].pc = "idle")
        => \A s \in ActiveSales : sales[s].sold_items < sales[s].total_items

\* the item rows that reference a sale
ItemRowsOfSale(saleID) == {i \in DOMAIN items : items[i].sale_id = saleID}

\* C14 as stated: when a cycle has ended, no sale is active with fewer item rows
\* than total_items, also when the batch insert failed and the deactivation of
\* the new sale failed as well.
C14_NoActiveSaleWithoutInventory ==
    sched.pc = "wait" =>
        \A s \in DOMAIN sales :
            sales[s].is_active => Cardinality(ItemRowsOfSale(s)) = sales[s].total_items

\* this step ends the request of worker w with an error
Fails(w) == req[w].pc # "done" /\ req'[w].pc = "done" /\ req'[w].result # Ok

\* the request that worker w serves, or starts with this step, is a checkout
IsCheckout(w) == req[w].pc = "idle" \/ req[w].op = "checkout"

PurchaseErrors ==
    {ErrCheckoutCodeInvalid, ErrCheckoutCodeAlreadyUsed, ErrCheckoutCodeExpired,
     ErrSaleNotActive, ErrItemNotFoundOrSold, ErrSaleLimitReached, ErrUserLimitReached,
     ErrPurchaseFailed}

CheckoutErrors ==
    {ErrSaleNotActive, ErrItemNotFoundOrSold, ErrUserLimitReached, ErrCheckoutFailed}

\* C15 as stated: a failing purchase returns one of the eight purchase errors
\* and a failing checkout one of the four checkout errors, and a call that
\* fails because a durable-store operation failed returns PurchaseFailed,
\* respectively ReservationFailed (ErrCheckoutFailed).
C15_ClosedErrorSets ==
    [][\A w \in Workers :
          Fails(w) =>
             IF IsCheckout(w)
             THEN /\ req'[w].result \in CheckoutErrors
                  /\ req'[w].fault => req'[w].result = ErrCheckoutFailed
             ELSE /\ req'[w].result \in PurchaseErrors
                  /\ req'[w].fault => req'[w].result = ErrPurchaseFailed]_vars

PhaseADecision(w, attempt) ==
    IF attempt.is_used
    THEN req'[w].pc = "done" /\ req'[w].result = ErrCheckoutCodeAlreadyUsed
    ELSE IF now > attempt.expires_at
    THEN req'[w].pc = "done" /\ req'[w].result = ErrCheckoutCodeExpired
    ELSE /\ req'[w].pc = "GetSaleByID"
         /\ req'[w].userID = attempt.user_id
         /\ req'[w].itemID = attempt.item_id
         /\ req'[w].saleID = attempt.sale_id

\* C17 (Spec): Phase A decision.  Unless a store operation fails, a purchase is
\* answered TokenInvalid when neither the cache nor the durable store has the
\* token; otherwise TokenAlreadyUsed when the resolved reservation is marked
\* used; otherwise TokenExpired when now > expires_at; otherwise SaleNotActive
\* when the reservation's sale is missing, inactive or outside its window; and
\* only otherwise it enters the Phase B transaction.  Phase A changes no table.
C17_PhaseADecision ==
    [][\A w \in Workers :
          (Steps(w) /\ ~req'[w].fault) =>
             /\ req[w].pc = "GetCheckoutAttempt" =>
                   /\ db' = db
                   /\ \/ req'[w].pc = "GetCheckoutAttemptByID"
                      \/ /\ req[w].code \in DOMAIN redis
                         /\ PhaseADecision(w, redis[req[w].code])
             /\ req[w].pc = "GetCheckoutAttemptByID" =>
                   /\ db' = db
                   /\ IF req[w].code \notin DOMAIN checkout_attempts
                      THEN req'[w].pc = "done" /\ req'[w].result = ErrCheckoutCodeInvalid
                      ELSE PhaseADecision(w, checkout_attempts[req[w].code])
             /\ (req[w].op = "purchase" /\ req[w].pc = "GetSaleByID") =>
                   /\ db' = db
                   /\ IF \/ req[w].saleID \notin DOMAIN sales
                         \/ ~sales[req[w].saleID].is_active
                         \/ now > sales[req[w].saleID].end_time
                         \/ now < sales[req[w].saleID].start_time
                      THEN req'[w].pc = "done" /\ req'[w].result = ErrSaleNotActive
                      ELSE req'[w].pc = "LockItem"
             /\ req'[w].pc = "LockItem" => req[w].pc = "GetSaleByID"]_vars

\* C17 witness: a reservation that is both used and past its expiry was
\* resolved from the durable store and answered TokenAlreadyUsed.
C17_Witness ==
    \E w \in Workers :
        /\ req[w].pc = "done" /\ req[w].result = ErrCheckoutCodeAlreadyUsed
        /\ ~req[w].fromCache
        /\ \A c \in DOMAIN checkout_attempts :
              checkout_attempts[c].is_used /\ now > checkout_attempts[c].expires_at

\* C18 (SpecRace): Phase B atomicity.  A step of a purchase changes the tables
\* only when it commits, so that an attempt refused or failing inside its
\* transaction (item sold, sale limit, user limit, sale closed, a failing
\* statement or commit) leaves the item flag, sold_items, the purchase rows, the
\* counter and the used flag as they were; and a commit applies the five
\* mutations together, so that no state shows some of them without the others.
C18_PhaseBAtomic ==
    [][\A w \in Workers :
          /\ (Steps(w) /\ req[w].op = "purchase" /\ ~Commits(w)) => db' = db
          /\ (InPhaseB(w) /\ Finishes(w)) =>
                /\ db' = db
                /\ req'[w].result \in {ErrItemNotFoundOrSold, ErrSaleLimitReached,
                                       ErrUserLimitReached, ErrPurchaseFailed}
          /\ Commits(w) =>
                /\ ~items[req[w].itemID].is_sold /\ items'[req[w].itemID].is_sold
                /\ sales'[req[w].saleID].sold_items = sales[req[w].saleID].sold_items + 1
                /\ Len(purchases') = Len(purchases) + 1
                /\ purchases'[Len(purchases')].checkout_code = req[w].code
                /\ GetUserPurchaseCountForSale(req[w].userID, req[w].saleID)' =
                      GetUserPurchaseCountForSale(req[w].userID, req[w].saleID) + 1
                /\ ~checkout_attempts[req[w].code].is_used
                /\ checkout_attempts'[req[w].code].is_used]_vars

\* C18 witness: an attempt failed inside its transaction with PurchaseFailed
\* and the tables show no trace of it: its reservation is unused, nothing is
\* sold and there is neither a purchase row nor a counter row.
C18_Witness ==
    \E w \in Workers :
        /\ req[w].pc = "done" /\ req[w].result = ErrPurchaseFailed /\ req[w].fault
        /\ purchases = <<>> /\ user_sale_limits = <<>>
        /\ \A i \in DOMAIN items : ~items[i].is_sold
        /\ \A s \in DOMAIN sales : sales[s].sold_items = 0
        /\ \A c \in DOMAIN checkout_attempts : ~checkout_attempts[c].is_used

\* C19 as stated: when the context of a purchase is done while its transaction
\* is in progress, the transaction is rolled back: it does not commit.
C19_DeadlineRollsBack ==
    [][\A w \in Workers : Commits(w) => ~req[w].ctxDone]_vars

\* C20 as stated: a purchase in which no durable-store operation fails is never
\* answered PurchaseFailed.
C20_PurchaseFailedOnlyOnStoreFailure ==
    [][\A w \in Workers :
          (req[w].op = "purchase" /\ Finishes(w) /\ ~req'[w].fault)
              => req'[w].result # ErrPurchaseFailed]_vars

\* worker w is a purchase inside getValidCheckoutAttempt
InPhaseA(w) ==
    /\ req[w].op = "purchase"
    /\ req[w].pc \in {"GetCheckoutAttempt", "GetCheckoutAttemptByID", "GetSaleByID"}

PhaseAErrors ==
    {ErrCheckoutCodeInvalid, ErrCheckoutCodeAlreadyUsed, ErrCheckoutCodeExpired,
     ErrSaleNotActive}

\* C21 (Spec): Phase A is read-only.  No step of getValidCheckoutAttempt changes
\* a table, and a purchase answered TokenInvalid, TokenAlreadyUsed, TokenExpired
\* or SaleNotActive ends inside Phase A: it never entered the transaction.
C21_PhaseAReadOnly ==
    [][\A w \in Workers :
          /\ (InPhaseA(w) /\ Steps(w)) => db' = db
          /\ (req[w].op = "purchase" /\ Finishes(w) /\ req'[w].result \in PhaseAErrors)
                => InPhaseA(w) /\ db' = db]_vars

\* C21 witness: a purchase with an unknown token was answered TokenInvalid by
\* the durable lookup while a reservation of another token is outstanding, and
\* the tables are as the checkout left them.
C21_Witness ==
    \E w \in Workers :
        /\ req[w].pc = "done" /\ req[w].result = ErrCheckoutCodeInvalid /\ ~req[w].fault
        /\ DOMAIN checkout_attempts # {}
        /\ \A c \in DOMAIN checkout_attempts : ~checkout_attempts[c].is_used
        /\ purchases = <<>> /\ user_sale_limits = <<>>
        /\ \A i \in DOMAIN items : ~items[i].is_sold


\* the rows a Phase B step of worker w reads
TxItem(w) == items[req[w].itemID]

TxSale(w) == sales[req[w].saleID]

TxUserCount(w) == GetUserPurchaseCountForSale(req[w].userID, req[w].saleID)

\* this step is a step of worker w inside its transaction on which no store
\* operation fails
TxStep(w) ==
    /\ req[w].op = "purchase" /\ InPhaseB(w) /\ Steps(w)
    /\ ~req'[w].fault

\* C22 as stated (SpecOrder): the first failing of the three checks item sold,
\* sale full, user at the limit decides the result of the transaction:
\* ItemAlreadySold, otherwise SaleLimitReached, otherwise UserLimitReached.
C22_ThreeChecksDecide ==
    [][\A w \in Workers :
          (TxStep(w) /\ Finishes(w)) =>
              IF TxItem(w).is_sold
              THEN req'[w].result = ErrItemNotFoundOrSold
              ELSE IF TxSale(w).sold_items >= TxSale(w).total_items
              THEN req'[w].result = ErrSaleLimitReached
              ELSE IF TxUserCount(w) >= userMaxItemsPerSale
              THEN req'[w].result = ErrUserLimitReached
              ELSE TRUE]_vars

\* C22 amended (SpecOrder): Phase B check order.  The transaction evaluates, in
\* this order, item sold, sale closed (inactive or past its end), sale full,
\* user at the limit; the first failing check decides the result
\* (ItemAlreadySold, PurchaseFailed, SaleLimitReached, UserLimitReached) and a
\* passing check leads to the next one, whatever the later checks would say.
C22_CheckOrder ==
    [][\A w \in Workers :
          TxStep(w) =>
              /\ req[w].pc = "LockItem" =>
                    IF TxItem(w).is_sold
                    THEN Finishes(w) /\ req'[w].result = ErrItemNotFoundOrSold
                    ELSE req'[w].pc = "LockSale"
              /\ req[w].pc = "LockSale" =>
                    IF ~TxSale(w).is_active \/ now > TxSale(w).end_time
                    THEN Finishes(w) /\ req'[w].result = ErrPurchaseFailed
                    ELSE IF TxSale(w).sold_items >= TxSale(w).total_items
                    THEN Finishes(w) /\ req'[w].result = ErrSaleLimitReached
                    ELSE req'[w].pc = "LockUserLimit"
              /\ req[w].pc = "LockUserLimit" =>
                    IF TxUserCount(w) >= userMaxItemsPerSale
                    THEN Finishes(w) /\ req'[w].result = ErrUserLimitReached
                    ELSE req'[w].pc = "Commit"]_vars

\* C22 witness: a transaction is about to lock the row of an item that is
\* sold while its user is also at the per-user limit.
C22_Witness ==
    \E w \in Workers :
        /\ req[w].op = "purchase" /\ req[w].pc = "LockItem"
        /\ ~ItemRowLocked(w, req[w].itemID)
        /\ TxItem(w).is_sold
        /\ TxUserCount(w) >= userMaxItemsPerSale


\* C23 (SpecLimit): successful Phase B effect.  A commit changes the tables by
\* exactly five mutations: the target item becomes sold, the sale's sold_items
\* grows by 1, one purchase row (user, item and sale of the reservation, and its
\* code) is appended, the (user, sale) counter grows by 1 or is created at 1, and
\* the reservation becomes used; every other row and field is as before.
C23_CommitEffect ==
    [][\A w \in Workers :
          Commits(w) =>
              LET a == checkout_attempts[req[w].code]
                  k == <<a.user_id, a.sale_id>>
              IN  /\ ~items[a.item_id].is_sold
                  /\ items' = [items EXCEPT ![a.item_id].is_sold = TRUE]
                  /\ sales' = [sales EXCEPT ![a.sale_id].sold_items = @ + 1]
                  /\ purchases' = purchases \o
                        <<[user_id |-> a.user_id, item_id |-> a.item_id,
                           sale_id |-> a.sale_id, checkout_code |-> req[w].code]>>
                  /\ DOMAIN user_sale_limits' = DOMAIN user_sale_limits \cup {k}
                  /\ user_sale_limits'[k] =
                        IF k \in DOMAIN user_sale_limits THEN user_sale_limits[k] + 1 ELSE 1
                  /\ \A j \in DOMAIN user_sale_limits \ {k} :
                        user_sale_limits'[j] = user_sale_limits[j]
                  /\ checkout_attempts' =
                        [checkout_attempts EXCEPT ![req[w].code].is_used = TRUE]]_vars

\* C23 witness: a purchase has just committed and raised its user's counter
\* from 1 to 2, while another user holds a counter row and other reservations
\* are outstanding.
C23_Witness ==
    \E w \in Workers :
        /\ req[w].pc = "DeleteCheckoutCode"
        /\ user_sale_limits[<<req[w].userID, req[w].saleID>>] = 2
        /\ \E k \in DOMAIN user_sale_limits : k[1] # req[w].userID
        /\ \E c \in DOMAIN checkout_attempts : ~checkout_attempts[c].is_used


\* this step is a step of a checkout served by worker w
CheckoutStep(w) ==
    /\ Steps(w)
    /\ req[w].op = "checkout" \/ (req[w].pc = "idle" /\ req'[w].op # "purchase")

\* the unused reservations that name item i
ReservationsOfItem(i) ==
    {c \in DOMAIN checkout_attempts :
        checkout_attempts[c].item_id = i /\ ~checkout_attempts[c].is_used}

\* C24 (SpecLimit): checkout is advisory.  A step of ProcessCheckout changes no
\* item, sale, counter or purchase row; all it changes is one inserted
\* reservation row and one written cache entry.  Reservations never block a
\* checkout: a checkout that names an unsold item of its sale passes the item
\* lookup however many unused reservations name the item.
C24_CheckoutAdvisory ==
    [][\A w \in Workers :
          CheckoutStep(w) =>
              /\ items' = items /\ sales' = sales
              /\ user_sale_limits' = user_sale_limits /\ purchases' = purchases
              /\ checkout_attempts' # checkout_attempts =>
                    /\ req[w].pc = "CreateCheckoutAttempt"
                    /\ \E c \in Codes \ DOMAIN checkout_attempts :
                          /\ DOMAIN checkout_attempts' = DOMAIN checkout_attempts \cup {c}
                          /\ \A d \in DOMAIN checkout_attempts :
                                checkout_attempts'[d] = checkout_attempts[d]
              /\ redis' # redis =>
                    /\ req[w].pc = "StoreCheckoutCode"
                    /\ DOMAIN redis' = DOMAIN redis \cup {req[w].code}
                    /\ \A d \in DOMAIN redis \ {req[w].code} : redis'[d] = redis[d]
              /\ (/\ req[w].pc = "GetItemForCheckout"
                  /\ req[w].itemID \in DOMAIN items
                  /\ items[req[w].itemID].sale_id = req[w].saleID
                  /\ ~items[req[w].itemID].is_sold) => req'[w].pc = "GetUserPurchaseCount"]_vars

\* C24 witness: a checkout has just been answered with a code while three
\* other unused reservations, of both users, name the same unsold item, and no
\* item, sale or counter row has changed.
C24_Witness ==
    \E w \in Workers, i \in DOMAIN items :
        /\ req[w].pc = "done" /\ req[w].result = Ok
        /\ ~items[i].is_sold
        /\ Cardinality(ReservationsOfItem(i)) = LimitCodes
        /\ \A u \in Users : \E c \in ReservationsOfItem(i) : checkout_attempts[c].user_id = u
        /\ \A j \in DOMAIN items : ~items[j].is_sold
        /\ \A t \in DOMAIN sales : sales[t].sold_items = 0
        /\ user_sale_limits = <<>> /\ purchases = <<>>


\* the transaction of worker w waits for a row lock
WaitsForItem(w) ==
    req[w].op = "purchase" /\ req[w].pc = "LockItem" /\ ItemRowLocked(w, req[w].itemID)

WaitsForSale(w) ==
    req[w].op = "purchase" /\ req[w].pc = "LockSale" /\ SaleRowLocked(w, req[w].saleID)

\* worker w waits for a lock that worker v holds
WaitsFor(w, v) ==
    /\ w # v
    /\ \/ WaitsForItem(w) /\ HoldsItemLock(v) /\ req[v].itemID = req[w].itemID
       \/ WaitsForSale(w) /\ HoldsSaleLock(v) /\ req[v].saleID = req[w].saleID

\* the scheduler's UPDATE of the active sales waits for the transaction of worker v
SchedWaitsFor(v) ==
    /\ sched.pc = "DeactivateAllActiveSales"
    /\ HoldsSaleLock(v) /\ sales[req[v].saleID].is_active

\* no transaction waits, directly or through others, for itself: whoever is
\* waited for either does not wait or waits for one that does not wait
NoWaitCycle ==
    \A w, v \in Workers :
        (WaitsFor(w, v) \/ SchedWaitsFor(v)) =>
            \/ ~(WaitsForItem(v) \/ WaitsForSale(v))
            \/ \E u \in Workers \ {w} :
                  WaitsFor(v, u) /\ ~(WaitsForItem(u) \/ WaitsForSale(u))

SaleGone(w) ==
    \/ req[w].saleID \notin DOMAIN sales
    \/ ~sales[req[w].saleID].is_active
    \/ now > sales[req[w].saleID].end_time

\* C26 (Spec): the sale of a cached reservation is re-validated.  A purchase
\* enters Phase B only by the step that fetched its sale from the durable
\* store, and when that step follows a cache hit and finds the sale deactivated,
\* ended or missing, the call is answered SaleNotActive and Phase B is not
\* entered.
C26_CachedSaleRevalidated ==
    [][\A w \in Workers :
          /\ (req[w].pc # "LockItem" /\ req'[w].pc = "LockItem") =>
                req[w].pc = "GetSaleByID" /\ ~SaleGone(w)
          /\ (req[w].op = "purchase" /\ req[w].pc = "GetSaleByID" /\ req[w].fromCache
              /\ Steps(w) /\ SaleGone(w)) =>
                Finishes(w) /\ req'[w].result = ErrSaleNotActive]_vars

\* C26 witness: a purchase that found its reservation in the cache has been
\* answered SaleNotActive without any store failure, the sale of the unused
\* reservation being deactivated before its end time.
C26_Witness ==
    \E w \in Workers :
        /\ req[w].pc = "done" /\ req[w].result = ErrSaleNotActive
        /\ req[w].fromCache /\ ~req[w].fault
        /\ \E c \in DOMAIN checkout_attempts :
              /\ ~checkout_attempts[c].is_used
              /\ c \in DOMAIN redis
              /\ ~sales[checkout_attempts[c].sale_id].is_active
              /\ now <= sales[checkout_attempts[c].sale_id].end_time


\* C27 (Spec): no allocation in a closed sale.  A transaction goes on from the
\* sale row lock only if the sale is active and not past its end at that
\* moment; is_active does not change while a transaction holds the row, so the
\* sale is active when the transaction commits; and a deactivated sale stays
\* as it is: it is never active again, its sold_items never changes and none
\* of its items changes.
C27_NoAllocationInClosedSale ==
    [][/\ \A w \in Workers :
            /\ (req[w].pc = "LockSale" /\ req'[w].pc = "LockUserLimit") =>
                  sales[req[w].saleID].is_active /\ now <= sales[req[w].saleID].end_time
            /\ HoldsSaleLock(w) =>
                  sales'[req[w].saleID].is_active = sales[req[w].saleID].is_active
            /\ Commits(w) => sales[req[w].saleID].is_active
       /\ \A s \in DOMAIN sales :
            ~sales[s].is_active =>
                /\ sales'[s] = sales[s]
                /\ \A i \in DOMAIN items : items[i].sale_id = s => items'[i] = items[i]]_vars

\* C27 witness: the scheduler deactivated a sale while a purchase for it was
\* between Phase A and the sale row lock; the transaction was refused, and the
\* sale, not yet at its end time, has sold nothing.
C27_Witness ==
    \E w \in Workers :
        /\ req[w].pc = "done" /\ req[w].result = ErrPurchaseFailed /\ ~req[w].fault
        /\ \E c \in DOMAIN checkout_attempts :
              LET s == checkout_attempts[c].sale_id IN
              /\ ~checkout_attempts[c].is_used
              /\ ~sales[s].is_active /\ now <= sales[s].end_time
              /\ sales[s].sold_items = 0
              /\ \A i \in DOMAIN items : items[i].sale_id = s => ~items[i].is_sold


\* C28 (SpecCycle): scheduler cycle postcondition.  In a cycle whose store
\* operations all succeed, the new sale row is created when no sale is active,
\* as an active sale with sold_items = 0, start = now, end = now + SaleDuration
\* and total_items = itemsPerSale; and when the cycle ends the new sale is the
\* only active one, still with sold_items = 0 and its window, and exactly
\* total_items item rows reference it, all unsold.
C28_CyclePostcondition ==
    [][/\ (sched.pc = "CreateSale" /\ sched'.pc = "CreateItemsBatch") =>
            /\ \A s \in DOMAIN sales : ~sales[s].is_active
            /\ Len(sales') = Len(sales) + 1
            /\ \A s \in DOMAIN sales : sales'[s] = sales[s]
            /\ sales'[Len(sales')] =
                  [start_time |-> now, end_time |-> now + SaleDuration,
                   total_items |-> itemsPerSale, sold_items |-> 0, is_active |-> TRUE]
       /\ (sched.pc = "CreateItemsBatch" /\ sched'.pc = "wait") =>
            LET n == Len(sales') IN
            /\ n = Len(sales) /\ n = sched.saleID
            /\ \A s \in DOMAIN sales' : sales'[s].is_active <=> s = n
            /\ sales'[n].sold_items = 0
            /\ sales'[n].total_items = itemsPerSale
            /\ sales'[n].start_time <= now
            /\ sales'[n].end_time = sales'[n].start_time + SaleDuration
            /\ Cardinality({i \in DOMAIN items' : items'[i].sale_id = n}) = sales'[n].total_items
            /\ \A i \in DOMAIN items' : items'[i].sale_id = n => ~items'[i].is_sold
            /\ \A i \in DOMAIN items : items'[i] = items[i]]_vars

\* C28 witness: the second cycle has ended: the first sale, in which an item
\* was sold, is inactive, and the second sale is active with its full inventory.
C28_Witness ==
    /\ sched.pc = "wait" /\ Len(sales) = 2
    /\ ~sales[1].is_active /\ sales[1].sold_items = 1
    /\ sales[2].is_active /\ sales[2].sold_items = 0
    /\ Cardinality({i \in DOMAIN items : items[i].sale_id = 2}) = itemsPerSale


\* this step ends a scheduler cycle with an error: CreateSale failed, or the
\* batch insert failed and the new sale was to be deactivated
CycleFails ==
    /\ sched.pc \in {"CreateSale", "DeactivateSaleByID"}
    /\ sched'.pc = "wait"

\* C29 as stated: a cycle starts only by a tick, one period after the previous
\* one, and never while a cycle is running, so a failed cycle is not retried
\* before the next tick; and when a cycle fails no sale is active (here: active
\* with now before the end of its window) until a later cycle creates one.
C29_FailedCycleLeavesNoActiveSale ==
    [][/\ (sched.pc # "DeactivateAllActiveSales" /\ sched'.pc = "DeactivateAllActiveSales") =>
            sched.pc = "wait" /\ now >= sched.lastTick + SaleCycleInterval
       /\ CycleFails => \A s \in ActiveSales' : now >= sales'[s].end_time
       /\ (sched.pc = "wait" /\ sched'.pc = "wait") =>
            {s \in ActiveSales' : now' < sales'[s].end_time}
                \subseteq {s \in ActiveSales : now < sales[s].end_time}]_vars


\* C30 (Spec): the sold flag of an item is monotonic.  No step removes an item
\* row or takes is_sold from true to false; a step that changes is_sold is the
\* commit of a purchase transaction for that item, which had no purchase row
\* and now has one; and a sold item keeps its single purchase row, so it is
\* sold exactly once.
C30_SoldFlagMonotonic ==
    [][\A i \in DOMAIN items :
          /\ i \in DOMAIN items'
          /\ items[i].is_sold => items'[i].is_sold
          /\ items[i].is_sold => PurchasesOfItem(i)' = PurchasesOfItem(i)
          /\ items'[i].is_sold # items[i].is_sold =>
                /\ \E w \in Workers : Commits(w) /\ req[w].itemID = i
                /\ PurchasesOfItem(i) = {}
                /\ Cardinality(PurchasesOfItem(i)') = 1]_vars

\* C30 witness: an item was sold, a later purchase for it was refused inside
\* its transaction, the scheduler has run another cycle, and the item is still
\* sold.
C30_Witness ==
    \E i \in DOMAIN items, w \in Workers :
        /\ items[i].is_sold /\ Cardinality(PurchasesOfItem(i)) = 1
        /\ req[w].pc = "done" /\ req[w].result = ErrItemNotFoundOrSold /\ req[w].fromCache
        /\ sched.pc = "wait" /\ Len(sales) = 2
        /\ Cardinality(DOMAIN items) = 2 * itemsPerSale


\* C31 (Spec): reservation rows are soft history.  No step removes a
\* reservation row or changes its user, item, sale or expiry; its used flag
\* never goes back to false, and it changes only in the commit step of a
\* purchase transaction for that code.
C31_ReservationSoftHistory ==
    [][\A c \in DOMAIN checkout_attempts :
          /\ c \in DOMAIN checkout_attempts'
          /\ checkout_attempts'[c].user_id = checkout_attempts[c].user_id
          /\ checkout_attempts'[c].item_id = checkout_attempts[c].item_id
          /\ checkout_attempts'[c].sale_id = checkout_attempts[c].sale_id
          /\ checkout_attempts'[c].expires_at = checkout_attempts[c].expires_at
          /\ checkout_attempts[c].is_used => checkout_attempts'[c].is_used
          /\ checkout_attempts'[c].is_used # checkout_attempts[c].is_used =>
                \E w \in Workers : Commits(w) /\ req[w].code = c]_vars

\* C31 witness: a reservation was consumed, its window has passed, the cache
\* has dropped it and its sale is deactivated; the row is still there.
C31_Witness ==
    \E c \in DOMAIN checkout_attempts :
        /\ checkout_attempts[c].is_used
        /\ now > checkout_attempts[c].expires_at
        /\ c \notin DOMAIN redis
        /\ ~sales[checkout_attempts[c].sale_id].is_active
        /\ Cardinality(PurchasesOfCode(c)) = 1


\* C32 (SpecOrder, where no cache operation fails): cache eviction on
\* consumption.  When a purchase returns success the cache holds no entry for
\* its code.  An entry appears only by the cache write of the checkout that
\* created the code, with a time-to-live of CodeTTLExpiry, at a moment when the
\* reservation is unused and no purchase carries the code, so no entry is
\* created again after the purchase; an entry is never rewritten, and none is
\* present after its time-to-live.
C32_CacheEvictedOnConsumption ==
    [][/\ \A w \in Workers :
            (req[w].pc = "DeleteCheckoutCode" /\ Steps(w)) =>
                /\ req'[w].pc = "done" /\ req'[w].result = Ok
                /\ req[w].code \notin DOMAIN redis'
       /\ \A c \in DOMAIN redis' :
            /\ now' <= redis'[c].ttl_at
            /\ c \in DOMAIN redis => redis'[c] = redis[c]
            /\ c \notin DOMAIN redis =>
                  /\ \E w \in Workers :
                        /\ req[w].op = "checkout" /\ req[w].pc = "StoreCheckoutCode"
                        /\ req[w].code = c /\ Steps(w)
                  /\ redis'[c].ttl_at = now + CodeTTLExpiry
                  /\ ~checkout_attempts[c].is_used
                  /\ PurchasesOfCode(c) = {}]_vars

\* C32 witness: a purchase has returned success inside the window of its
\* reservation, and the cache, which held the entry, holds it no more.
C32_Witness ==
    \E w \in Workers, c \in DOMAIN checkout_attempts :
        /\ req[w].pc = "done" /\ req[w].result = Ok /\ req[w].fromCache
        /\ checkout_attempts[c].is_used
        /\ now <= checkout_attempts[c].expires_at
        /\ c \notin DOMAIN redis
        /\ \A d \in DOMAIN checkout_attempts \ {c} : ~checkout_attempts[d].is_used


(* ------------------------- HTTP handlers ------------------------------ *)
\* what ProcessCheckout or ProcessPurchase hands to its handler: nil, one of
\* the service's error values, or an error that is equal to none of them
\* (switch err compares with ==, so a wrapped error is such a one)
HandlerInputs == PurchaseErrors \cup CheckoutErrors \cup {ErrUnnamed, Ok}

\* CheckoutHandler.ServeHTTP: switch err
CheckoutStatus(err) ==
    CASE err = Ok -> 200
      [] err = ErrSaleNotActive -> 503
      [] err = ErrItemNotFoundOrSold -> 404
      [] err = ErrUserLimitReached -> 403
      [] err = ErrCheckoutFailed -> 500
      [] OTHER -> 500

\* seeded fault: a sold item is reported as a bad request
PurchaseStatus_SoldAsBadRequest(err) ==
    CASE err = Ok -> 200
      [] err \in {ErrCheckoutCodeInvalid, ErrCheckoutCodeExpired,
                  ErrCheckoutCodeAlreadyUsed, ErrItemNotFoundOrSold} -> 400
      [] err = ErrSaleNotActive -> 503
      [] err = ErrUserLimitReached -> 403
      [] err = ErrSaleLimitReached -> 409
      [] err = ErrPurchaseFailed -> 500
      [] OTHER -> 500

\* PurchaseHandler.ServeHTTP: switch err
PurchaseStatus(err) ==
    CASE err = Ok -> 200
      [] err \in {ErrCheckoutCodeInvalid, ErrCheckoutCodeExpired,
                  ErrCheckoutCodeAlreadyUsed} -> 400
      [] err = ErrSaleNotActive -> 503
      [] err = ErrItemNotFoundOrSold -> 409
      [] err = ErrUserLimitReached -> 403
      [] err = ErrSaleLimitReached -> 409
      [] err = ErrPurchaseFailed -> 500
      [] OTHER -> 500

\* a handler that has called the service and holds its answer
InitHandlers ==
    /\ now = 0
    /\ sales = <<>>
    /\ items = <<>>
    /\ checkout_attempts = <<>>
    /\ purchases = <<>>
    /\ user_sale_limits = <<>>
    /\ redis = <<>>
    /\ sched = [pc |-> "wait", lastTick |-> 0, saleID |-> 0, starting |-> FALSE,
                shutdownChan |-> "open", schedulerDone |-> "open", tickAtShutdown |-> 0]
    /\ req \in [Workers ->
                  {[pc |-> "ServeHTTP", op |-> o, err |-> e, status |-> 0] :
                      o \in {"checkout", "purchase"}, e \in HandlerInputs}]

\* the handler writes the status of its response
ServeHTTP(w) ==
    /\ req[w].pc = "ServeHTTP"
    /\ req' = [req EXCEPT ![w].pc = "responded",
                          ![w].status = IF req[w].op = "checkout"
                                        THEN CheckoutStatus(req[w].err)
                                        ELSE PurchaseStatus(req[w].err)]
    /\ UNCHANGED <<now, db, redis, sched>>

NextHandlers == \E w \in Workers : ServeHTTP(w)

SpecHandlers == InitHandlers /\ [][NextHandlers]_vars

\* the three outcome classes of a failed purchase
PurchaseClass(err) ==
    IF err \in {ErrCheckoutCodeInvalid, ErrCheckoutCodeExpired, ErrCheckoutCodeAlreadyUsed}
    THEN "token"
    ELSE IF err \in {ErrSaleNotActive, ErrItemNotFoundOrSold, ErrSaleLimitReached,
                     ErrUserLimitReached}
    THEN "contention"
    ELSE "infrastructure"

\* the four outcomes of a failed checkout; ReservationFailed reaches the handler
\* wrapped (fmt.Errorf("%w: ...", ErrCheckoutFailed, err)), as do lookup errors
CheckoutClass(err) ==
    IF err \in {ErrSaleNotActive, ErrItemNotFoundOrSold, ErrUserLimitReached}
    THEN err
    ELSE ErrCheckoutFailed

Responded(w, op) == req[w].pc = "responded" /\ req[w].op = op /\ req[w].err # Ok

\* C33 (SpecHandlers): outcome classes at the HTTP boundary.  Two failed
\* purchases whose errors are of different classes (token, contention,
\* infrastructure: PurchaseFailed or any other error) never get the same status
\* code, no failure gets the status of a success, and two failed checkouts with
\* different errors among SaleNotActive, ItemUnavailable, UserLimitReached and
\* ReservationFailed never get the same status code.
C33_OutcomeClasses ==
    \A w, v \in Workers :
        /\ (Responded(w, "purchase") /\ Responded(v, "purchase")
            /\ PurchaseClass(req[w].err) # PurchaseClass(req[v].err))
              => req[w].status # req[v].status
        /\ (Responded(w, "checkout") /\ Responded(v, "checkout")
            /\ CheckoutClass(req[w].err) # CheckoutClass(req[v].err))
              => req[w].status # req[v].status
        /\ (Responded(w, "purchase") \/ Responded(w, "checkout")) => req[w].status # 200

\* C33 witness: a purchase refused because its item was sold and a purchase
\* refused because its token had expired have both been answered.
C33_Witness ==
    \E w, v \in Workers :
        /\ Responded(w, "purchase") /\ req[w].err = ErrItemNotFoundOrSold
        /\ Responded(v, "purchase") /\ req[v].err = ErrCheckoutCodeExpired


\* C34 (SpecLimit): the counter equals the purchases.  In every reachable
\* state the counter rows belong to users and sales, the counter of every
\* (user, sale) equals the number of purchase rows of that user in that sale
\* (0 without a row), and a transaction that is about to write finds the
\* counter below the limit, so the condition of its guarded upsert is true.
C34_CounterEqualsPurchases ==
    /\ DOMAIN user_sale_limits \subseteq Users \X DOMAIN sales
    /\ \A u \in Users, s \in DOMAIN sales :
          GetUserPurchaseCountForSale(u, s) = Cardinality(PurchasesOfUser(u, s))
    /\ \A w \in Workers :
          (req[w].op = "purchase" /\ req[w].pc = "Commit") =>
              GetUserPurchaseCountForSale(req[w].userID, req[w].saleID) < userMaxItemsPerSale

\* C34 witness: a transaction of a user without a counter row is about to
\* write, while the other user has reached the limit.
C34_Witness ==
    \E w \in Workers, u \in Users :
        /\ req[w].op = "purchase" /\ req[w].pc = "Commit" /\ req[w].userID # u
        /\ <<req[w].userID, req[w].saleID>> \notin DOMAIN user_sale_limits
        /\ GetUserPurchaseCountForSale(u, req[w].saleID) = userMaxItemsPerSale
        /\ Cardinality(PurchasesOfUser(u, req[w].saleID)) = userMaxItemsPerSale


\* the sold items of a sale
SoldItemsOfSale(saleID) ==
    {i \in DOMAIN items : items[i].sale_id = saleID /\ items[i].is_sold}

\* C35 (SpecRace): counting invariant.  In every reachable state, for every
\* sale, sold_items equals the number of its sold items and the number of its
\* purchase rows; every item has at most one purchase row, and has one exactly
\* if it is sold.
C35_Counting ==
    /\ \A s \in DOMAIN sales :
          /\ sales[s].sold_items = Cardinality(SoldItemsOfSale(s))
          /\ sales[s].sold_items = Cardinality(PurchasesOfSale(s))
    /\ \A i \in DOMAIN items :
          /\ Cardinality(PurchasesOfItem(i)) <= 1
          /\ items[i].is_sold <=> Cardinality(PurchasesOfItem(i)) = 1

\* C35 witness: two items of a sale are sold, each with its purchase row,
\* after a purchase that failed inside its transaction.
C35_Witness ==
    \E s \in DOMAIN sales, w \in Workers :
        /\ sales[s].sold_items = 2
        /\ Cardinality(SoldItemsOfSale(s)) = 2
        /\ Cardinality(PurchasesOfSale(s)) = 2
        /\ req[w].pc = "done" /\ req[w].result = ErrPurchaseFailed /\ req[w].fault


\* this step ends a purchase of worker w that resolved, from the cache, a
\* reservation that is used in the durable store, and no store operation of
\* it failed (the purchase that consumed the reservation is not meant)
ReusedFromCacheEnds(w) ==
    /\ req[w].op = "purchase" /\ Finishes(w)
    /\ req[w].pc # "DeleteCheckoutCode"
    /\ req'[w].fromCache /\ ~req'[w].fault
    /\ checkout_attempts[req[w].code].is_used

\* C36 as stated: no cache entry is marked used, a purchase that resolved its
\* reservation from the cache is never answered TokenAlreadyUsed, and a reused
\* token resolved from the cache reaches Phase B and fails there with
\* ItemAlreadySold, without any durable mutation.  Stated here for tokens
\* inside their window, so that a violation does not rest on a cache entry
\* that outlives expires_at.
C36_ReusedTokenFailsInPhaseB ==
    [][/\ \A c \in DOMAIN redis' : ~redis'[c].is_used
       /\ \A w \in Workers :
            /\ (req[w].op = "purchase" /\ Finishes(w) /\ req'[w].fromCache) =>
                  req'[w].result # ErrCheckoutCodeAlreadyUsed
            /\ (ReusedFromCacheEnds(w)
                /\ now <= checkout_attempts[req[w].code].expires_at) =>
                  /\ InPhaseB(w) /\ req'[w].result = ErrItemNotFoundOrSold
                  /\ db' = db]_vars

\* C36 amended (Spec): no cache entry is marked used or rewritten, and a
\* purchase that resolved its reservation from the cache is never answered
\* TokenAlreadyUsed.  A reused token resolved from the cache passes the used
\* check; it is refused in Phase A if it has expired (TokenExpired) or its sale
\* is closed (SaleNotActive), and otherwise reaches Phase B and fails at the
\* item check with ItemAlreadySold; in no case is a table changed.
C36_CacheNeverUsed ==
    [][/\ \A c \in DOMAIN redis' :
            /\ ~redis'[c].is_used
            /\ c \in DOMAIN redis => redis'[c] = redis[c]
       /\ \A w \in Workers :
            /\ (req[w].op = "purchase" /\ Finishes(w) /\ req'[w].fromCache) =>
                  req'[w].result # ErrCheckoutCodeAlreadyUsed
            /\ Commits(w) => ~checkout_attempts[req[w].code].is_used
            /\ ReusedFromCacheEnds(w) =>
                  /\ db' = db
                  /\ req[w].pc = "GetCheckoutAttempt" =>
                        /\ req'[w].result = ErrCheckoutCodeExpired
                        /\ now > redis[req[w].code].expires_at
                  /\ req[w].pc = "GetSaleByID" =>
                        req'[w].result = ErrSaleNotActive /\ SaleGone(w)
                  /\ req[w].pc \notin {"GetCheckoutAttempt", "GetSaleByID"} =>
                        /\ req[w].pc = "LockItem"
                        /\ req'[w].result = ErrItemNotFoundOrSold]_vars

\* C36 witness: the cache delete of a successful purchase failed; the token was
\* presented again, resolved from the surviving entry, and refused in Phase B
\* with ItemAlreadySold.
C36_Witness ==
    \E w \in Workers, c \in DOMAIN redis :
        /\ req[w].pc = "done" /\ req[w].result = ErrItemNotFoundOrSold
        /\ req[w].fromCache /\ ~req[w].fault
        /\ checkout_attempts[c].is_used /\ ~redis[c].is_used
        /\ Cardinality(PurchasesOfCode(c)) = 1
        /\ \A v \in Workers : req[v].pc \in {"idle", "done"}


C38_PurchaseMatchesReservation ==
    /\ \A k \in DOMAIN purchases :
          LET p == purchases[k] IN
          /\ p.checkout_code \in DOMAIN checkout_attempts
          /\ p.user_id = checkout_attempts[p.checkout_code].user_id
          /\ p.item_id = checkout_attempts[p.checkout_code].item_id
          /\ p.sale_id = checkout_attempts[p.checkout_code].sale_id
          /\ p.item_id \in DOMAIN items
          /\ items[p.item_id].sale_id = p.sale_id
    /\ \A c \in DOMAIN checkout_attempts :
          checkout_attempts[c].is_used <=> PurchasesOfCode(c) # {}

\* C38 witness: two users have each bought an item with their own code, and a
\* purchase with one of the codes, presented again, has been refused.
C38_Witness ==
    /\ Len(purchases) = 2
    /\ purchases[1].user_id # purchases[2].user_id
    /\ purchases[1].checkout_code # purchases[2].checkout_code
    /\ \A c \in DOMAIN checkout_attempts : checkout_attempts[c].is_used
    /\ \E w \in Workers :
          req[w].pc = "done" /\ req[w].result = ErrCheckoutCodeAlreadyUsed


\* C39 (SpecLimit): SaleLimitReached is unreachable without a miscount.  Every
\* sale has as many item rows as total_items says, or none yet; a transaction
\* that has found its item unsold meets sold_items < total_items at the sale
\* row; and no purchase is answered SaleLimitReached.
C39_SaleLimitUnreachable ==
    [][/\ \A s \in DOMAIN sales :
            Cardinality(ItemRowsOfSale(s)) \in {0, sales[s].total_items}
       /\ \A w \in Workers :
            /\ (req[w].op = "purchase" /\ req[w].pc = "LockSale") =>
                  sales[req[w].saleID].sold_items < sales[req[w].saleID].total_items
            /\ (req[w].op = "purchase" /\ Finishes(w)) =>
                  req'[w].result # ErrSaleLimitReached]_vars

\* C39 witness: a transaction holds the last unsold item of its sale and is
\* about to lock the sale row.
C39_Witness ==
    \E w \in Workers :
        /\ req[w].op = "purchase" /\ req[w].pc = "LockSale"
        /\ ~SaleRowLocked(w, req[w].saleID)
        /\ sales[req[w].saleID].sold_items = sales[req[w].saleID].total_items - 1
        /\ Cardinality(SoldItemsOfSale(req[w].saleID)) = sales[req[w].saleID].total_items - 1

(* ------------------------- scheduler shutdown ------------------------- *)
\* application.serve after SIGINT/SIGTERM: close(app.shutdownChan). The field
\* tickAtShutdown remembers which tick the scheduler had last taken by then.
ServeShutdown ==
    /\ sched.shutdownChan = "open"
    /\ sched' = [sched EXCEPT !.shutdownChan = "closed", !.tickAtShutdown = sched.lastTick]
    /\ UNCHANGED <<now, db, redis, req>>

\* seeded fault: the select of the scheduler has no shutdown case
SchedShutdown_Ignored ==
    /\ sched.pc = "wait"
    /\ sched.shutdownChan = "closed"
    /\ UNCHANGED vars

\* runSaleScheduler, case <-app.shutdownChan: return, and the deferred
\* close(app.schedulerDone). The select takes any ready case, so SchedTickTo
\* stays enabled beside this action while a tick is pending.
SchedShutdown ==
    /\ sched.pc = "wait"
    /\ sched.shutdownChan = "closed"
    /\ sched' = [sched EXCEPT !.pc = "stopped", !.schedulerDone = "closed"]
    /\ UNCHANGED <<now, db, redis, req>>

\* one step of a running cycle of the scheduler
SchedCycleStep ==
    \/ \E fail \in BOOLEAN : SchedDeactivateAll(fail)
    \/ \E fail \in BOOLEAN : SchedCreateSale(fail)
    \/ \E fail \in BOOLEAN : SchedCreateItems(fail)
    \/ \E fail \in BOOLEAN : SchedDeactivateByID(fail)

\* The scheduler with failing store calls, checkouts beside it, and the
\* process being told to stop at any moment.
NextShutdown ==
    \/ NextSched
    \/ ServeShutdown
    \/ SchedShutdown

\* A running cycle terminates, and a select that keeps finding the shutdown
\* channel ready takes that case at some point (the runtime picks among the
\* ready cases uniformly at random).
SpecShutdown ==
    Init /\ [][NextShutdown]_vars /\ WF_vars(SchedCycleStep) /\ SF_vars(SchedShutdown)

\* the scheduler begins a cycle in this step
CycleStarts == sched.pc = "wait" /\ sched'.pc = "DeactivateAllActiveSales"

====
